---- MODULE Spec2Model ----
(***************************************************************************)
(* Model of the canonical discount pipeline of dodo-migrate:               *)
(*   src/src/models/discount.ts                       (transform/validate) *)
(*   src/src/adapters/lemonsqueezy/importDiscounts.ts (filter)             *)
(*                                                                         *)
(* The functions are pure.  A behaviour is a caller that holds an array of  *)
(* discounts and makes one call on it; the state after the call holds the  *)
(* array as the caller then sees it, the other arguments, what the call    *)
(* returned or threw, and what it wrote to the console.                    *)
(*                                                                         *)
(* JavaScript values are records [t, n, s]: t is the kind of value, n the  *)
(* number in thousandths (15 is 15000, 12.5 is 12500, 12.345 is 12345) and *)
(* s the text of a string.  Arithmetic is exact decimal arithmetic; the    *)
(* representation error of IEEE doubles is not modelled, and NaN is not a  *)
(* value of the model (discounts are built from JSON, which has no NaN).   *)
(*                                                                         *)
(* SpecLemonSqueezy is the coupons branch of the LemonSqueezy handler      *)
(* (src/src/providers/lemonsqueezy/index.ts:216-304): import, filter,       *)
(* transform, confirm, create one by one.  Each action is the code between  *)
(* two awaits.                                                             *)
(*                                                                         *)
(* SpecProviders is one run of one migration function of one provider:     *)
(* build the requests, preview, confirm, create one by one.  Flows is the   *)
(* table of the functions; the requests of the Paddle product migration and *)
(* of the Stripe coupon migration are built as the code builds them, those  *)
(* of the other functions are opaque items.                                *)
(*                                                                         *)
(* SpecStores is the products branch of the LemonSqueezy handler with its  *)
(* cache of stores.  SpecFetchAllPages is the cursor loop fetchAllPages of  *)
(* the Paddle provider, SpecPolarFetch the page loop of the Polar provider  *)
(* with its retries, SpecPageLoop the page-number loops of Gumroad,         *)
(* 2Checkout and Paddle Classic; in each the server answers every request   *)
(* as it likes.  SpecPaddleHandler is the Paddle handler from its setup to  *)
(* its exit status.                                                        *)
(***************************************************************************)
EXTENDS Integers, Sequences, FiniteSets

VARIABLES
    op,            \* the function that was called
    discounts,     \* the caller's array of discounts; a call on one discount takes discounts[1]
    brandId,       \* the brandId argument
    statusFilter,  \* the statusFilter argument, Omitted when not passed
    typeFilter,    \* the typeFilter argument, Omitted when not passed
    thrown,        \* message of the Error the call threw, NoError when it returned
    requests,      \* the DodoPaymentsDiscount(s) returned
    valid,         \* the boolean returned by validateCanonicalDiscount
    filtered,      \* the array returned by filterDiscounts
    filteredAgain, \* the array returned when the caller filters `filtered` again
    warnings,      \* console.warn lines of the call: the invalidCount of each
    \* --- the coupons branch of the LemonSqueezy handler
    pc,            \* where the handler is
    source,        \* the discounts held by the LemonSqueezy account, in API order
    perPage,       \* how many discounts the API puts in one page of a list answer
    response,      \* what listDiscounts() answered
    answer,        \* what the user selected at the confirmation prompt
    created,       \* the requests passed to client.discounts.create, in call order
    successCount,  \* create calls that returned
    failureCount,  \* create calls that threw
    completedCoupons,
    \* --- one migration function of one provider
    flow,          \* which function runs: its provider, entity type and create call
    isTTY,         \* process.stdin.isTTY
    asked,         \* the confirmation prompt has been shown
    items,         \* the previewed requests, in preview order
    products,      \* Paddle: the products of the account
    prices,        \* Paddle: the prices of the account
    coupons,       \* Stripe: the coupons of the account, each with its promotion codes;
                   \* Paddle: the discounts of the account
    \* --- fetching, the store cache, the Paddle handler
    now,           \* the clock when the migration runs (new Date())
    fetcher,       \* which fetch loop runs
    server,        \* what the source API answers: the account's pages
    pageIndex,     \* the loop's page counter
    after,         \* Paddle: the cursor of the next request
    attempts,      \* Polar: requests of the current page answered 429 so far
    allItems,      \* the items accumulated by the loop, page after page
    asks,          \* the requests made, in order: the cursor or page number of each
    stores,        \* LemonSqueezy: the currency of each store of the account
    StoresData,    \* LemonSqueezy: the handler's cache of fetched stores
    getStoreCalls, \* LemonSqueezy: the store ids passed to getStore, in call order
    migrateTypes,  \* Paddle handler: the selected migrations
    results,       \* Paddle handler: what each migration run so far returned
    hasFailures,   \* Paddle handler
    exitStatus,    \* Paddle handler: the argument of process.exit, -1 while running
    completedMigrations, \* LemonSqueezy handler: the list of the final message
    completedProducts    \* LemonSqueezy handler: the products branch ran to its end

auxVars == <<now, fetcher, server, pageIndex, after, attempts, allItems, asks, stores,
             StoresData, getStoreCalls, migrateTypes, results, hasFailures, exitStatus,
             completedMigrations, completedProducts>>

runVars == <<flow, isTTY, asked, items, products, prices, coupons>>

flowVars == <<pc, source, perPage, response, answer, created, successCount,
              failureCount, completedCoupons>>

vars == <<op, discounts, brandId, statusFilter, typeFilter, thrown, requests,
          valid, filtered, filteredAgain, warnings, flowVars, runVars,
          auxVars>>

\* ---------------------------------------------------------------- bounds
MaxLen == 3

\* ------------------------------------------------------ JavaScript values
Num(k) == [t |-> "number", n |-> k, s |-> ""]

Str(text) == [t |-> "string", n |-> 0, s |-> text]

Null == [t |-> "null", n |-> 0, s |-> ""]

Undefined == [t |-> "undefined", n |-> 0, s |-> ""]

\* typeof v
TypeOf(v) == IF v.t = "null" THEN "object" ELSE v.t

\* v * 100 for a number or null (ToNumber(null) is 0)
Times100(v) == IF v.t = "number" THEN Num(v.n * 100) ELSE Num(0)

\* Math.round: the nearest integer, halves towards plus infinity
MathRound(v) == Num(((v.n + 500) \div 1000) * 1000)

IsInteger(v) == v.t = "number" /\ v.n % 1000 = 0

\* -------------------------------------------------------------- the data
Omitted == "undefined"

NoError == "none"

InvalidDiscountError == "Invalid discount data: missing name or code"

UnsupportedDiscountError == "Dodo Payments only supports percentage discounts"

Ids == {"", "d1"}

Names == {"", "Spring"}

Codes == {"", "SPRING20"}

Amounts == {Null, Num(-1000), Num(0), Num(12345), Num(12500), Num(15000)}

Durations == {"once", "repeating", "forever", "weekly"}

Months == {Null, Undefined, Num(-1000), Num(0), Num(1500), Num(3000)}

Statuses == {"published", "draft", "archived"}

BrandIds == {"brand_1", "brand_2"}

CanonicalDiscount ==
    [id : Ids, provider : {"lemonsqueezy"}, name : Names, code : Codes,
     amount : Amounts, isPercent : BOOLEAN,
     duration : Durations, durationInMonths : Months,
     status : Statuses,
     usageLimit : {Null, Num(10000)},
     expiresAt : {Null, Str("2025-12-31T00:00:00Z")},
     createdAt : {"2024-01-01T00:00:00Z"}, updatedAt : {"2024-01-01T00:00:00Z"},
     providerData : {[store_id |-> 1, amount_type |-> "percent"]}]

\* The record of spec scenario 6.
Spring ==
    [id |-> "d1", provider |-> "lemonsqueezy", name |-> "Spring", code |-> "SPRING20",
     amount |-> Num(15000), isPercent |-> TRUE,
     duration |-> "once", durationInMonths |-> Null,
     status |-> "published", usageLimit |-> Null, expiresAt |-> Null,
     createdAt |-> "2024-01-01T00:00:00Z", updatedAt |-> "2024-01-01T00:00:00Z",
     providerData |-> [store_id |-> 1, amount_type |-> "percent"]]

\* The discounts that the arrays of the batch calls are made of.
BatchDiscounts ==
    { Spring,
      [Spring EXCEPT !.amount = Num(12500), !.status = "draft"],
      [Spring EXCEPT !.duration = "repeating", !.durationInMonths = Num(3000),
                     !.status = "archived"],
      [Spring EXCEPT !.isPercent = FALSE],
      [Spring EXCEPT !.isPercent = FALSE, !.status = "draft"],
      [Spring EXCEPT !.name = ""],
      [Spring EXCEPT !.duration = "repeating"],
      [Spring EXCEPT !.isPercent = FALSE, !.duration = "forever",
                     !.durationInMonths = Num(3000)] }

SeqsUpTo(S, k) == UNION { [1..m -> S] : m \in 0..k }

\* ------------------------------------------------------------ discount.ts
ValidateCanonicalDiscountNoMonthsCheck(discount) ==
    IF discount.id = "" \/ discount.name = "" \/ discount.code = "" THEN FALSE
    ELSE IF TypeOf(discount.amount) # "number" \/ discount.amount.n < 0 THEN FALSE
    ELSE IF discount.duration \notin {"once", "repeating", "forever"} THEN FALSE
    ELSE IF discount.duration # "repeating" /\ discount.durationInMonths # Null THEN FALSE
    ELSE TRUE

ValidateCanonicalDiscountIntegerMonths(discount) ==
    IF discount.id = "" \/ discount.name = "" \/ discount.code = "" THEN FALSE
    ELSE IF TypeOf(discount.amount) # "number" \/ discount.amount.n < 0 THEN FALSE
    ELSE IF discount.duration \notin {"once", "repeating", "forever"} THEN FALSE
    ELSE IF discount.duration = "repeating"
            /\ (~IsInteger(discount.durationInMonths)
                \/ discount.durationInMonths.n <= 0) THEN FALSE
    ELSE IF discount.duration # "repeating" /\ discount.durationInMonths # Null THEN FALSE
    ELSE TRUE

ValidateCanonicalDiscount(discount) ==
    IF discount.id = "" \/ discount.name = "" \/ discount.code = "" THEN FALSE
    ELSE IF TypeOf(discount.amount) # "number" \/ discount.amount.n < 0 THEN FALSE
    ELSE IF discount.duration \notin {"once", "repeating", "forever"} THEN FALSE
    ELSE IF discount.duration = "repeating"
            /\ (TypeOf(discount.durationInMonths) # "number"
                \/ discount.durationInMonths.n <= 0) THEN FALSE
    ELSE IF discount.duration # "repeating" /\ discount.durationInMonths # Null THEN FALSE
    ELSE TRUE

DodoPaymentsDiscountNoUsageLimit(canonicalDiscount, brand, amount) ==
    [name |-> canonicalDiscount.name,
     code |-> canonicalDiscount.code,
     type |-> "percentage",
     amount |-> amount,
     usage_limit |-> Null,
     expires_at |-> canonicalDiscount.expiresAt,
     brand_id |-> brand,
     duration |-> canonicalDiscount.duration,
     duration_in_months |-> canonicalDiscount.durationInMonths]

\* The object literal of lines 95-106.
DodoPaymentsDiscount(canonicalDiscount, brand, amount) ==
    [name |-> canonicalDiscount.name,
     code |-> canonicalDiscount.code,
     type |-> "percentage",
     amount |-> amount,
     usage_limit |-> canonicalDiscount.usageLimit,
     expires_at |-> canonicalDiscount.expiresAt,
     brand_id |-> brand,
     duration |-> canonicalDiscount.duration,
     duration_in_months |-> canonicalDiscount.durationInMonths]

\* A call's outcome: the Error thrown (or NoError) and the sequence returned.
Throw(message) == [thrown |-> message, returned |-> <<>>]

Return(values) == [thrown |-> NoError, returned |-> values]

TransformToDodoPaymentsSameError(canonicalDiscount, brand) ==
    IF canonicalDiscount.name = "" \/ canonicalDiscount.code = ""
    THEN Throw(InvalidDiscountError)
    ELSE IF ~canonicalDiscount.isPercent
    THEN Throw(InvalidDiscountError)
    ELSE Return(<<DodoPaymentsDiscount(canonicalDiscount, brand,
                      Times100(canonicalDiscount.amount))>>)

TransformToDodoPaymentsNameOnly(canonicalDiscount, brand) ==
    IF canonicalDiscount.name = ""
    THEN Throw(InvalidDiscountError)
    ELSE IF ~canonicalDiscount.isPercent
    THEN Throw(UnsupportedDiscountError)
    ELSE Return(<<DodoPaymentsDiscount(canonicalDiscount, brand,
                      Times100(canonicalDiscount.amount))>>)

TransformToDodoPayments(canonicalDiscount, brand) ==
    IF canonicalDiscount.name = "" \/ canonicalDiscount.code = ""
    THEN Throw(InvalidDiscountError)
    ELSE IF ~canonicalDiscount.isPercent
    THEN Throw(UnsupportedDiscountError)
    ELSE Return(<<DodoPaymentsDiscount(canonicalDiscount, brand,
                      Times100(canonicalDiscount.amount))>>)

\* Array.prototype.map over transformToDodoPayments: the first element that
\* throws ends the map and the exception leaves the caller.
RECURSIVE MapTransformToDodoPayments(_, _)
MapTransformToDodoPayments(validDiscounts, brand) ==
    IF validDiscounts = <<>> THEN Return(<<>>)
    ELSE LET first == TransformToDodoPayments(Head(validDiscounts), brand)
         IN  IF first.thrown # NoError THEN Throw(first.thrown)
             ELSE LET rest == MapTransformToDodoPayments(Tail(validDiscounts), brand)
                  IN  IF rest.thrown # NoError THEN rest
                      ELSE Return(first.returned \o rest.returned)

\* The outcome of the call and the console.warn lines it wrote.
TransformMultipleToDodoPayments(ds, brand) ==
    LET validDiscounts == SelectSeq(ds, ValidateCanonicalDiscount)
        invalidCount == Len(ds) - Len(validDiscounts)
        outcome == MapTransformToDodoPayments(validDiscounts, brand)
    IN  [thrown |-> outcome.thrown,
         returned |-> outcome.returned,
         warned |-> IF Len(validDiscounts) # Len(ds) THEN <<invalidCount>> ELSE <<>>]

\* ------------------------------------------------------ importDiscounts.ts
StatusFilters == {Omitted, "published", "draft", "archived"}

TypeFilters == {Omitted, "percentage", "fixed"}

FilterDiscountsElseIf(ds, status, type) ==
    IF status # Omitted
    THEN SelectSeq(ds, LAMBDA discount : discount.status = status)
    ELSE IF type # Omitted
    THEN SelectSeq(ds, LAMBDA discount : discount.isPercent = (type = "percentage"))
    ELSE ds

FilterDiscountsSkipFirst(ds, status, type) ==
    LET rest == IF ds = <<>> THEN ds ELSE Tail(ds)
        byStatus == IF status # Omitted
                    THEN SelectSeq(rest, LAMBDA discount : discount.status = status)
                    ELSE rest
    IN  IF type # Omitted
        THEN SelectSeq(byStatus, LAMBDA discount : discount.isPercent = (type = "percentage"))
        ELSE byStatus

FilterDiscountsReversed(ds, status, type) ==
    LET byStatus == IF status # Omitted
                    THEN SelectSeq(ds, LAMBDA discount : discount.status = status)
                    ELSE ds
    IN  IF type # Omitted
        THEN LET kept == SelectSeq(byStatus,
                       LAMBDA discount : discount.isPercent = (type = "percentage"))
             IN  [i \in 1..Len(kept) |-> kept[Len(kept) + 1 - i]]
        ELSE byStatus

FilterDiscounts(ds, status, type) ==
    LET byStatus == IF status # Omitted
                    THEN SelectSeq(ds, LAMBDA discount : discount.status = status)
                    ELSE ds
        isPercent == type = "percentage"
    IN  IF type # Omitted
        THEN SelectSeq(byStatus, LAMBDA discount : discount.isPercent = isPercent)
        ELSE byStatus

\* What the LemonSqueezy API holds for one discount (models/discount.ts).
LemonSqueezyDiscount ==
    [id : Ids, type : {"discounts"},
     attributes :
        [store_id : {1}, name : Names, code : Codes,
         amount : {Num(15000), Num(12500)},
         amount_type : {"percent", "fixed"},
         status : Statuses,
         duration : Durations,
         duration_in_months : {Null, Num(0), Num(3000)},
         is_limited_redemptions : BOOLEAN,
         max_redemptions : {Null, Num(10000)},
         expires_at : {Null},
         created_at : {"2024-01-01T00:00:00Z"}, updated_at : {"2024-01-01T00:00:00Z"}]]

LsSpring ==
    [id |-> "d1", type |-> "discounts",
     attributes |->
        [store_id |-> 1, name |-> "Spring", code |-> "SPRING20",
         amount |-> Num(15000), amount_type |-> "percent",
         status |-> "published", duration |-> "once", duration_in_months |-> Null,
         is_limited_redemptions |-> FALSE, max_redemptions |-> Null,
         expires_at |-> Null,
         created_at |-> "2024-01-01T00:00:00Z", updated_at |-> "2024-01-01T00:00:00Z"]]

\* The discounts that the account of the handler's runs is made of: two that
\* can be migrated, a draft, an archived, a fixed-amount, one without a name and
\* a repeating one without its number of months.
LsDiscounts ==
    { LsSpring,
      [LsSpring EXCEPT !.attributes.code = "SUMMER", !.attributes.amount = Num(12500),
                       !.attributes.duration = "repeating",
                       !.attributes.duration_in_months = Num(3000),
                       !.attributes.is_limited_redemptions = TRUE,
                       !.attributes.max_redemptions = Num(10000)],
      [LsSpring EXCEPT !.attributes.code = "DRAFT", !.attributes.status = "draft"],
      [LsSpring EXCEPT !.attributes.code = "ARCHIVED", !.attributes.status = "archived"],
      [LsSpring EXCEPT !.attributes.code = "FIXED", !.attributes.amount_type = "fixed"],
      [LsSpring EXCEPT !.attributes.code = "NONAME", !.attributes.name = ""],
      [LsSpring EXCEPT !.attributes.code = "NOMONTHS",
                       !.attributes.duration = "repeating"] }

TransformLemonSqueezyDiscountKeepsMonths(lsDiscount) ==
    LET attributes == lsDiscount.attributes
        known == attributes.duration \in {"once", "forever", "repeating"}
    IN  [id |-> lsDiscount.id,
         provider |-> "lemonsqueezy",
         name |-> attributes.name,
         code |-> attributes.code,
         amount |-> attributes.amount,
         isPercent |-> attributes.amount_type = "percent",
         duration |-> IF known THEN attributes.duration ELSE "once",
         durationInMonths |-> attributes.duration_in_months,
         status |-> attributes.status,
         usageLimit |-> IF attributes.is_limited_redemptions
                        THEN attributes.max_redemptions ELSE Null,
         expiresAt |-> attributes.expires_at,
         createdAt |-> attributes.created_at,
         updatedAt |-> attributes.updated_at,
         providerData |-> [store_id |-> attributes.store_id,
                           amount_type |-> attributes.amount_type]]

\* transformLemonSqueezyDiscount: the switch on attributes.duration, then the
\* returned literal.
TransformLemonSqueezyDiscount(lsDiscount) ==
    LET attributes == lsDiscount.attributes
        duration == CASE attributes.duration = "once" -> "once"
                      [] attributes.duration = "forever" -> "forever"
                      [] attributes.duration = "repeating" -> "repeating"
                      [] OTHER -> "once"
        durationInMonths == IF attributes.duration = "repeating"
                            THEN attributes.duration_in_months
                            ELSE Null
    IN  [id |-> lsDiscount.id,
         provider |-> "lemonsqueezy",
         name |-> attributes.name,
         code |-> attributes.code,
         amount |-> attributes.amount,
         isPercent |-> attributes.amount_type = "percent",
         duration |-> duration,
         durationInMonths |-> durationInMonths,
         status |-> attributes.status,
         usageLimit |-> IF attributes.is_limited_redemptions
                        THEN attributes.max_redemptions ELSE Null,
         expiresAt |-> attributes.expires_at,
         createdAt |-> attributes.created_at,
         updatedAt |-> attributes.updated_at,
         providerData |-> [store_id |-> attributes.store_id,
                           amount_type |-> attributes.amount_type]]

StatusCodes == {200, 500}

ImportError == "Failed to fetch discounts from LemonSqueezy"

\* listDiscounts() as the handler calls it, with no page parameter: the API
\* answers with the first page of the account's discounts, or with an error.
ListDiscounts(all, size, error, statusCode) ==
    [error |-> error,
     statusCode |-> statusCode,
     data |-> IF error \/ statusCode # 200
              THEN <<>>
              ELSE SubSeq(all, 1, IF Len(all) < size THEN Len(all) ELSE size)]

ImportLemonSqueezyDiscountsStatusOnly(resp) ==
    IF resp.statusCode # 200
    THEN Throw(ImportError)
    ELSE Return([i \in 1..Len(resp.data) |-> TransformLemonSqueezyDiscount(resp.data[i])])

\* importLemonSqueezyDiscounts, from the answer of its one listDiscounts() call
\* on: the catch block logs and throws the error again.
ImportLemonSqueezyDiscounts(resp) ==
    IF resp.error \/ resp.statusCode # 200
    THEN Throw(ImportError)
    ELSE Return([i \in 1..Len(resp.data) |-> TransformLemonSqueezyDiscount(resp.data[i])])

\* The handler's variables in a state where the handler is not running.
NoResponse == [error |-> FALSE, statusCode |-> 0, data |-> <<>>]

FlowIdle ==
    /\ pc = "idle"
    /\ source = <<>>
    /\ perPage = 1
    /\ response = NoResponse
    /\ answer = "none"
    /\ created = <<>>
    /\ successCount = 0
    /\ failureCount = 0
    /\ completedCoupons = FALSE

\* No migration function is running.
NoFlow == [provider |-> "none", entity |-> "none", create |-> 0,
           prompt |-> "always", catches |-> TRUE]

RunIdle ==
    /\ flow = NoFlow
    /\ isTTY = TRUE
    /\ asked = FALSE
    /\ items = <<>>
    /\ products = <<>>
    /\ prices = <<>>
    /\ coupons = <<>>

\* No fetch loop, no products branch and no Paddle handler is running.
FetchIdle ==
    /\ fetcher = "none"
    /\ server = <<>>
    /\ pageIndex = 0
    /\ after = "none"
    /\ attempts = 0
    /\ allItems = <<>>
    /\ asks = <<>>
    /\ stores = <<>>
    /\ StoresData = <<>>
    /\ getStoreCalls = <<>>
    /\ migrateTypes = {}
    /\ results = <<>>
    /\ hasFailures = FALSE
    /\ exitStatus = -1
    /\ completedMigrations = <<>>

AuxIdle ==
    /\ now = 0
    /\ completedProducts = FALSE
    /\ FetchIdle

callVars ==
    <<op, discounts, brandId, statusFilter, typeFilter, thrown, requests, valid,
      filtered, filteredAgain, warnings>>

\* No function of discount.ts has been called.
CallIdle ==
    /\ op = "none"
    /\ discounts = <<>>
    /\ brandId = "brand_1"
    /\ statusFilter = Omitted
    /\ typeFilter = Omitted
    /\ thrown = NoError
    /\ requests = <<>>
    /\ valid = FALSE
    /\ filtered = <<>>
    /\ filteredAgain = <<>>
    /\ warnings = <<>>

\* ------------------------------------------------------------------ calls
\* The caller holds either one discount of any shape or an array of at most
\* MaxLen discounts; no call has been made yet.
Init ==
    /\ op = "none"
    /\ discounts \in { <<d>> : d \in CanonicalDiscount } \cup SeqsUpTo(BatchDiscounts, MaxLen)
    /\ brandId = Omitted
    /\ statusFilter = Omitted
    /\ typeFilter = Omitted
    /\ thrown = NoError
    /\ requests = <<>>
    /\ valid = FALSE
    /\ filtered = <<>>
    /\ filteredAgain = <<>>
    /\ warnings = <<>>
    /\ FlowIdle
    /\ RunIdle
    /\ AuxIdle

IsBatch(ds) == \A i \in 1..Len(ds) : ds[i] \in BatchDiscounts

\* transformToDodoPayments(discounts[1], b)
CallTransformToDodoPayments ==
    /\ op = "none"
    /\ Len(discounts) = 1
    /\ \E b \in BrandIds :
        /\ op' = "transformToDodoPayments"
        /\ brandId' = b
        /\ thrown' = TransformToDodoPayments(discounts[1], b).thrown
        /\ requests' = TransformToDodoPayments(discounts[1], b).returned
    /\ UNCHANGED <<discounts, statusFilter, typeFilter, valid, filtered, filteredAgain,
                   warnings>>
    /\ UNCHANGED flowVars
    /\ UNCHANGED runVars
    /\ UNCHANGED auxVars

\* validateCanonicalDiscount(discounts[1])
CallValidateCanonicalDiscount ==
    /\ op = "none"
    /\ Len(discounts) = 1
    /\ op' = "validateCanonicalDiscount"
    /\ valid' = ValidateCanonicalDiscount(discounts[1])
    /\ UNCHANGED <<discounts, brandId, statusFilter, typeFilter, thrown, requests,
                   filtered, filteredAgain, warnings>>
    /\ UNCHANGED flowVars
    /\ UNCHANGED runVars
    /\ UNCHANGED auxVars

\* transformMultipleToDodoPayments(discounts, b)
CallTransformMultipleToDodoPayments ==
    /\ op = "none"
    /\ IsBatch(discounts)
    /\ \E b \in BrandIds :
        /\ op' = "transformMultipleToDodoPayments"
        /\ brandId' = b
        /\ thrown' = TransformMultipleToDodoPayments(discounts, b).thrown
        /\ requests' = TransformMultipleToDodoPayments(discounts, b).returned
        /\ warnings' = TransformMultipleToDodoPayments(discounts, b).warned
    /\ UNCHANGED <<discounts, statusFilter, typeFilter, valid, filtered, filteredAgain>>
    /\ UNCHANGED flowVars
    /\ UNCHANGED runVars
    /\ UNCHANGED auxVars

\* filterDiscounts(discounts, s, t)
CallFilterDiscounts ==
    /\ op = "none"
    /\ IsBatch(discounts)
    /\ \E s \in StatusFilters, t \in TypeFilters :
        /\ op' = "filterDiscounts"
        /\ statusFilter' = s
        /\ typeFilter' = t
        /\ filtered' = FilterDiscounts(discounts, s, t)
    /\ UNCHANGED <<discounts, brandId, thrown, requests, valid, filteredAgain, warnings>>
    /\ UNCHANGED flowVars
    /\ UNCHANGED runVars
    /\ UNCHANGED auxVars

\* filterDiscounts(filtered, statusFilter, typeFilter): the caller passes the
\* result of the first call back in with the same filters.
CallFilterDiscountsAgain ==
    /\ op = "filterDiscounts"
    /\ op' = "filterDiscountsAgain"
    /\ filteredAgain' = FilterDiscounts(filtered, statusFilter, typeFilter)
    /\ UNCHANGED <<discounts, brandId, statusFilter, typeFilter, thrown, requests, valid,
                   filtered, warnings>>
    /\ UNCHANGED flowVars
    /\ UNCHANGED runVars
    /\ UNCHANGED auxVars

Next ==
    \/ CallTransformToDodoPayments
    \/ CallValidateCanonicalDiscount
    \/ CallTransformMultipleToDodoPayments
    \/ CallFilterDiscounts
    \/ CallFilterDiscountsAgain

Spec == Init /\ [][Next]_vars

\* ------------------------------------------- providers/lemonsqueezy/index.ts
PercentageDiscountsAnyType(canonicalDiscounts) ==
    FilterDiscounts(canonicalDiscounts, "published", Omitted)

PercentageDiscountsAnyStatus(canonicalDiscounts) ==
    FilterDiscounts(canonicalDiscounts, Omitted, "percentage")

\* The published discounts, and of these the percentage ones.
PercentageDiscounts(canonicalDiscounts) ==
    FilterDiscounts(FilterDiscounts(canonicalDiscounts, "published", Omitted),
                    Omitted, "percentage")

\* The handler is about to migrate the coupons of an account that holds either
\* one discount of any shape or at most MaxLen of LsDiscounts.
InitLemonSqueezy ==
    /\ op = "none"
    /\ discounts = <<>>
    /\ brandId = "brand_1"
    /\ statusFilter = Omitted
    /\ typeFilter = Omitted
    /\ thrown = NoError
    /\ requests = <<>>
    /\ valid = FALSE
    /\ filtered = <<>>
    /\ filteredAgain = <<>>
    /\ warnings = <<>>
    /\ pc = "start"
    /\ \/ source \in { <<d>> : d \in LemonSqueezyDiscount } /\ perPage = 1
       \/ source \in SeqsUpTo(LsDiscounts, MaxLen) /\ perPage \in 1..MaxLen
    /\ response = NoResponse
    /\ answer = "none"
    /\ created = <<>>
    /\ successCount = 0
    /\ failureCount = 0
    /\ completedCoupons = FALSE
    /\ RunIdle
    /\ now = 0
    /\ completedProducts \in BOOLEAN
    /\ FetchIdle

\* const canonicalDiscounts = await importLemonSqueezyDiscounts(); an error goes
\* to the catch of the branch, which logs it and calls process.exit(1).
LsImport ==
    /\ pc = "start"
    /\ \E error \in BOOLEAN, statusCode \in StatusCodes :
        LET resp == ListDiscounts(source, perPage, error, statusCode)
            outcome == ImportLemonSqueezyDiscounts(resp)
        IN  /\ response' = resp
            /\ thrown' = outcome.thrown
            /\ discounts' = outcome.returned
            /\ pc' = IF outcome.thrown = NoError THEN "imported" ELSE "exit1"
    /\ UNCHANGED <<op, brandId, statusFilter, typeFilter, requests, valid, filtered,
                   filteredAgain, warnings>>
    /\ UNCHANGED <<source, perPage, answer, created, successCount, failureCount,
                   completedCoupons>>
    /\ UNCHANGED runVars
    /\ UNCHANGED auxVars

\* From the filters to the confirmation prompt: with no percentage discount the
\* branch ends, otherwise the requests are built and previewed.
LsPrepare ==
    /\ pc = "imported"
    /\ LET percentageDiscounts == PercentageDiscounts(discounts)
           outcome == TransformMultipleToDodoPayments(percentageDiscounts, brandId)
       IN  /\ filtered' = percentageDiscounts
           /\ IF Len(percentageDiscounts) > 0
              THEN /\ thrown' = outcome.thrown
                   /\ requests' = outcome.returned
                   /\ warnings' = outcome.warned
                   /\ pc' = IF outcome.thrown = NoError THEN "confirm" ELSE "exit1"
              ELSE /\ pc' = "done"
                   /\ UNCHANGED <<thrown, requests, warnings>>
    /\ UNCHANGED <<op, discounts, brandId, statusFilter, typeFilter, valid, filteredAgain>>
    /\ UNCHANGED <<source, perPage, response, answer, created, successCount,
                   failureCount, completedCoupons>>
    /\ UNCHANGED runVars
    /\ UNCHANGED auxVars

\* await select({ message: 'Proceed to create these coupons in Dodo Payments?' }):
\* on Yes the loop starts (and ends at once when there is nothing to create), on
\* No the migration is aborted.
LsConfirm ==
    /\ pc = "confirm"
    /\ \E a \in {"yes", "no"} :
        /\ answer' = a
        /\ pc' = IF a = "yes" /\ Len(requests) > 0 THEN "creating" ELSE "done"
        /\ completedCoupons' = (a = "yes" /\ Len(requests) = 0)
    /\ UNCHANGED <<op, discounts, brandId, statusFilter, typeFilter, thrown, requests,
                   valid, filtered, filteredAgain, warnings>>
    /\ UNCHANGED <<source, perPage, response, created, successCount, failureCount>>
    /\ UNCHANGED runVars
    /\ UNCHANGED auxVars

\* One turn of the loop: await client.discounts.create(discount) returns or
\* throws; after the last turn completedCoupons is set when nothing failed.
LsCreate ==
    /\ pc = "creating"
    /\ Len(created) < Len(requests)
    /\ \E ok \in BOOLEAN :
        /\ created' = Append(created, requests[Len(created) + 1])
        /\ successCount' = IF ok THEN successCount + 1 ELSE successCount
        /\ failureCount' = IF ok THEN failureCount ELSE failureCount + 1
        /\ pc' = IF Len(created') = Len(requests) THEN "done" ELSE "creating"
        /\ completedCoupons' = (Len(created') = Len(requests) /\ failureCount' = 0)
    /\ UNCHANGED <<op, discounts, brandId, statusFilter, typeFilter, thrown, requests,
                   valid, filtered, filteredAgain, warnings>>
    /\ UNCHANGED <<source, perPage, response, answer>>
    /\ UNCHANGED runVars
    /\ UNCHANGED auxVars

CompletedMigrationsWithCoupons(productsDone, couponsDone) ==
    (IF productsDone THEN <<"products">> ELSE <<>>) \o <<"coupons">>

\* if (completedProducts) completedMigrations.push('products');
\* if (completedCoupons) completedMigrations.push('coupons');
CompletedMigrations(productsDone, couponsDone) ==
    (IF productsDone THEN <<"products">> ELSE <<>>)
    \o (IF couponsDone THEN <<"coupons">> ELSE <<>>)

\* The final message of the handler: the branches that ran to their end, products
\* before coupons; nothing is logged when the list is empty.
LsReport ==
    /\ pc = "done"
    /\ completedMigrations' = CompletedMigrations(completedProducts, completedCoupons)
    /\ pc' = "reported"
    /\ UNCHANGED callVars
    /\ UNCHANGED <<source, perPage, response, answer, created, successCount,
                   failureCount, completedCoupons>>
    /\ UNCHANGED runVars
    /\ UNCHANGED <<now, fetcher, server, pageIndex, after, attempts, allItems, asks,
                   stores, StoresData, getStoreCalls, migrateTypes, results,
                   hasFailures, exitStatus, completedProducts>>

NextLemonSqueezy ==
    \/ LsImport
    \/ LsPrepare
    \/ LsConfirm
    \/ LsCreate
    \/ LsReport

SpecLemonSqueezy == InitLemonSqueezy /\ [][NextLemonSqueezy]_vars

\* ------------------------------------------------ the migration functions
MaxItems == 2

\* One row per creation loop: the line of its create call, whether its prompt is
\* shown whatever stdin is ("always") or only on a terminal ("tty"), and whether
\* the create call sits in a try/catch inside the loop.
Flow(provider, entity, create, prompt, catches) ==
    [provider |-> provider, entity |-> entity, create |-> create,
     prompt |-> prompt, catches |-> catches]

\* src/providers/stripe/index.ts
StripeFlows ==
    { Flow("stripe", "products", 233, "always", TRUE),
      Flow("stripe", "coupons", 374, "always", TRUE),
      Flow("stripe", "customers", 481, "always", TRUE) }

\* src/providers/paddle/index.ts
PaddleClassicFlows ==
    { Flow("paddle-classic", "products", 245, "always", TRUE),
      Flow("paddle-classic", "discounts", 339, "always", TRUE),
      Flow("paddle-classic", "customers", 436, "always", TRUE) }

\* src/providers/gumroad/index.ts
GumroadFlows ==
    { Flow("gumroad", "products", 233, "always", TRUE),
      Flow("gumroad", "discounts", 330, "always", TRUE),
      Flow("gumroad", "customers", 429, "always", TRUE) }

\* src/providers/polar/index.ts
PolarFlows ==
    { Flow("polar", "products", 302, "always", TRUE),
      Flow("polar", "coupons", 406, "always", TRUE),
      Flow("polar", "customers", 499, "always", TRUE) }

\* unnamed/part_002, the earlier Polar provider
PolarScaffoldFlows ==
    { Flow("polar-scaffold", "products", 252, "always", TRUE),
      Flow("polar-scaffold", "coupons", 330, "always", TRUE),
      Flow("polar-scaffold", "customers", 405, "always", TRUE) }

\* unnamed/part_000
TwoCheckoutFlows ==
    { Flow("2checkout", "discounts", 235, "always", TRUE),
      Flow("2checkout", "customers", 340, "always", TRUE) }

\* unnamed/part_001
RazorpayFlows ==
    { Flow("razorpay", "products", 346, "always", TRUE),
      Flow("razorpay", "discounts", 466, "always", TRUE),
      Flow("razorpay", "customers", 571, "always", TRUE) }

\* src/providers/lemonsqueezy-provider.js, lines 92-505
FastSpringFlows ==
    { Flow("fastspring", "customers", 195, "always", TRUE),
      Flow("fastspring", "products", 326, "always", TRUE),
      Flow("fastspring", "discounts", 480, "always", TRUE) }

\* src/providers/lemonsqueezy-provider.js, lines 902-1430: the prompt is inside
\* if (process.stdin.isTTY), with shouldProceed = 'yes' before it.
PaddleFlows ==
    { Flow("paddle", "products", 1081, "tty", TRUE),
      Flow("paddle", "discounts", 1246, "tty", TRUE),
      Flow("paddle", "customers", 1408, "tty", TRUE) }

\* src/providers/lemonsqueezy/index.ts: the product loops have no try/catch.
LemonSqueezyFlows ==
    { Flow("lemonsqueezy", "products", 202, "always", FALSE),
      Flow("lemonsqueezy", "coupons", 276, "always", TRUE),
      Flow("lemonsqueezy", "products", 515, "always", FALSE),
      Flow("lemonsqueezy", "coupons", 614, "always", TRUE) }

\* src/destinations/dodopayments/dodo-payments-service.js
DodoPaymentsServiceFlows ==
    { Flow("dodo-payments-service", "products", 121, "always", TRUE) }

Flows ==
    StripeFlows \cup PaddleClassicFlows \cup GumroadFlows \cup PolarFlows
    \cup PolarScaffoldFlows \cup TwoCheckoutFlows \cup RazorpayFlows
    \cup FastSpringFlows \cup PaddleFlows \cup LemonSqueezyFlows
    \cup DodoPaymentsServiceFlows

PaddleProductsFlow == Flow("paddle", "products", 1081, "tty", TRUE)

StripeCouponsFlow == Flow("stripe", "coupons", 374, "always", TRUE)

RECURSIVE Flatten(_)
Flatten(seqs) == IF seqs = <<>> THEN <<>> ELSE Head(seqs) \o Flatten(Tail(seqs))

\* ---- JavaScript helpers of the builders
\* ToBoolean of a number, string, null or undefined
Truthy(v) ==
    CASE v.t = "number" -> v.n # 0
      [] v.t = "string" -> v.s # ""
      [] OTHER -> FALSE

\* a || b
OrElse(a, b) == IF Truthy(a) THEN a ELSE b

Digits == {"0", "1", "2", "3", "4", "5", "6", "7", "8", "9"}

DigitValue(c) ==
    CASE c = "0" -> 0 [] c = "1" -> 1 [] c = "2" -> 2 [] c = "3" -> 3 [] c = "4" -> 4
      [] c = "5" -> 5 [] c = "6" -> 6 [] c = "7" -> 7 [] c = "8" -> 8 [] c = "9" -> 9

RECURSIVE CountDigits(_)
CountDigits(chars) ==
    IF chars = <<>> \/ Head(chars) \notin Digits THEN 0 ELSE 1 + CountDigits(Tail(chars))

RECURSIVE DigitsValue(_, _)
DigitsValue(chars, k) ==
    IF k = 0 THEN 0 ELSE DigitsValue(chars, k - 1) * 10 + DigitValue(chars[k])

\* parseInt(chars, 10) of a string given as its characters: an optional sign,
\* then the longest run of digits; NaN when there is no digit.
ParseInt(chars) ==
    LET signed == chars # <<>> /\ Head(chars) \in {"-", "+"}
        body == IF signed THEN Tail(chars) ELSE chars
        k == CountDigits(body)
        magnitude == DigitsValue(body, k)
    IN  [isNaN |-> k = 0,
         value |-> IF k = 0 THEN 0
                   ELSE IF signed /\ Head(chars) = "-" THEN 0 - magnitude ELSE magnitude]

\* String.prototype.toUpperCase on the currency codes of the model
ToUpperCase(text) ==
    CASE text = "usd" -> "USD"
      [] text = "eur" -> "EUR"
      [] OTHER -> text

\* new Date(seconds * 1000).toISOString() on the timestamps of the model
ToISOString(seconds) ==
    CASE seconds.n = 0 -> Str("1970-01-01T00:00:00.000Z")
      [] seconds.n = 86400000 -> Str("1970-01-02T00:00:00.000Z")

\* ---- Paddle: migrateProducts
NoBillingCycle == [isNull |-> TRUE, interval |-> "", frequency |-> 0]

BillingCycle(interval, frequency) ==
    [isNull |-> FALSE, interval |-> interval, frequency |-> frequency]

PaddleProduct(id, status) ==
    [id |-> id, name |-> "Pro", description |-> "", status |-> status]

PaddlePrice(id, product_id, status, billing_cycle, amount, currency_code, tax_mode) ==
    [id |-> id, product_id |-> product_id, status |-> status,
     billing_cycle |-> billing_cycle, tax_mode |-> tax_mode,
     unit_price |-> [amount |-> amount, currency_code |-> currency_code]]

\* An active product and an archived one.
PaddleProducts == { PaddleProduct("pro_1", "active"), PaddleProduct("pro_2", "archived") }

\* Prices: one-time, monthly, every second year, weekly, archived, with an amount
\* that is not a number, negative, with a decimal point, and of the archived
\* product; tax_mode is internal for every other one.
PaddlePrices ==
    { PaddlePrice("pri_1", "pro_1", "active", NoBillingCycle, <<"1", "0", "0", "0">>, "usd",
                  "internal"),
      PaddlePrice("pri_2", "pro_1", "active", BillingCycle("month", 1), <<"2", "0", "0", "0">>, "USD",
                  "external"),
      PaddlePrice("pri_3", "pro_1", "active", BillingCycle("year", 2), <<"9", "9", "0", "0">>, "eur",
                  "internal"),
      PaddlePrice("pri_4", "pro_1", "active", BillingCycle("week", 1), <<"5", "0", "0">>, "usd",
                  "external"),
      PaddlePrice("pri_5", "pro_1", "archived", BillingCycle("month", 1), <<"7", "0", "0">>, "usd",
                  "internal"),
      PaddlePrice("pri_6", "pro_1", "active", NoBillingCycle, <<"a", "b", "c">>, "usd",
                  "external"),
      PaddlePrice("pri_7", "pro_1", "active", NoBillingCycle, <<"-", "5">>, "usd",
                  "internal"),
      PaddlePrice("pri_8", "pro_1", "active", NoBillingCycle, <<"1", "2", ".", "5">>, "usd",
                  "external"),
      PaddlePrice("pri_9", "pro_2", "active", BillingCycle("month", 1), <<"9", "0", "0">>, "usd",
                  "internal") }

PaddleBillingPeriodMonthlyOnly(interval) ==
    IF interval \in {"month", "year"} THEN "monthly" ELSE "unsupported"

\* The mapping of billing_cycle.interval: billingPeriod, or no mapping
PaddleBillingPeriod(interval) ==
    IF interval = "month" THEN "monthly"
    ELSE IF interval = "year" THEN "yearly"
    ELSE "unsupported"

PaddleIntervalUnit(interval) ==
    IF interval = "month" THEN "Month"
    ELSE IF interval = "year" THEN "Year"
    ELSE "unsupported"

PaddlePriceIsActive(price) == price.status = "active"

\* What one price of an active product pushes to productsToMigrate: nothing or
\* one entry.
PaddleEntry(product, price, brand) ==
    LET unitPrice == ParseInt(price.unit_price.amount)
        currency == ToUpperCase(price.unit_price.currency_code)
        interval == price.billing_cycle.interval
        frequency == price.billing_cycle.frequency
        metadata == [paddle_product_id |-> product.id,
                     paddle_price_id |-> price.id,
                     migrated_from |-> "paddle"]
    IN  IF ~PaddlePriceIsActive(price) THEN <<>>
        ELSE IF unitPrice.isNaN \/ unitPrice.value < 0 THEN <<>>
        ELSE IF ~price.billing_cycle.isNull
        THEN IF PaddleBillingPeriod(interval) = "unsupported" THEN <<>>
             ELSE << [type |-> "subscription_product",
                      paddle_id |-> product.id,
                      data |-> [name |-> product.name,
                                description |-> product.description,
                                tax_category |-> "saas",
                                price |-> [currency |-> currency,
                                           price |-> unitPrice.value,
                                           discount |-> 0,
                                           purchasing_power_parity |-> FALSE,
                                           type |-> "recurring_price",
                                           billing_period |-> PaddleBillingPeriod(interval),
                                           payment_frequency_interval |-> PaddleIntervalUnit(interval),
                                           payment_frequency_count |-> frequency,
                                           subscription_period_interval |-> PaddleIntervalUnit(interval),
                                           subscription_period_count |-> frequency],
                                brand_id |-> brand,
                                metadata |-> metadata]] >>
        ELSE << [type |-> "one_time_product",
                 paddle_id |-> product.id,
                 data |-> [name |-> product.name,
                           description |-> product.description,
                           tax_category |-> "saas",
                           price |-> [currency |-> currency,
                                      price |-> unitPrice.value,
                                      discount |-> 0,
                                      purchasing_power_parity |-> FALSE,
                                      type |-> "one_time_price"],
                           brand_id |-> brand,
                           metadata |-> metadata]] >>

\* The two loops of migrateProducts: over the products, and for each active
\* product over its prices.
PaddleProductsToMigrate(allProducts, allPrices, brand) ==
    Flatten([i \in 1..Len(allProducts) |->
        IF allProducts[i].status # "active" THEN <<>>
        ELSE LET productPrices ==
                     SelectSeq(allPrices,
                               LAMBDA price : price.product_id = allProducts[i].id)
             IN  Flatten([j \in 1..Len(productPrices) |->
                     PaddleEntry(allProducts[i], productPrices[j], brand)])])

\* ---- Paddle: migrateDiscounts
\* parseFloat(chars) of a string given as its characters: an optional sign, digits,
\* then optionally a point and digits; NaN when there is no digit.  The value is
\* in thousandths, as in Num; the strings of the model have at most three decimals.
ParseFloat(chars) ==
    LET signed == chars # <<>> /\ Head(chars) \in {"-", "+"}
        body == IF signed THEN Tail(chars) ELSE chars
        k == CountDigits(body)
        rest == SubSeq(body, k + 1, Len(body))
        fraction == IF rest # <<>> /\ Head(rest) = "." THEN Tail(rest) ELSE <<>>
        m == CountDigits(fraction)
        thousandths == CASE m = 0 -> 0
                         [] m = 1 -> DigitsValue(fraction, 1) * 100
                         [] m = 2 -> DigitsValue(fraction, 2) * 10
                         [] OTHER -> DigitsValue(fraction, 3)
        magnitude == DigitsValue(body, k) * 1000 + thousandths
    IN  [isNaN |-> k = 0 /\ m = 0,
         value |-> IF k = 0 /\ m = 0 THEN 0
                   ELSE IF signed /\ Head(chars) = "-" THEN 0 - magnitude ELSE magnitude]

\* new Date(text).getTime() on the dates of the model, in years
DateParse(text) ==
    CASE text = "2020-01-01T00:00:00Z" -> 2020
      [] text = "2030-01-01T00:00:00Z" -> 2030

\* new Date(text).toISOString() on the dates of the model
DateToISOString(text) ==
    CASE text = "2020-01-01T00:00:00Z" -> "2020-01-01T00:00:00.000Z"
      [] text = "2030-01-01T00:00:00Z" -> "2030-01-01T00:00:00.000Z"

\* The times at which the migration may run: between the two dates, or after both.
Clock == {2025, 2035}

PaddleDiscount(id, status, code, type, amount, expires_at) ==
    [id |-> id, status |-> status, code |-> code, type |-> type, amount |-> amount,
     expires_at |-> expires_at, description |-> Null, usage_limit |-> Null]

\* Discounts: 20 percent; 12.345 percent with a description, a usage limit and an
\* expiry in 2030; flat; archived; expired in 2020; without code; 150 percent;
\* an amount that is no number; another type; a negative percentage.
PaddleDiscounts ==
    { PaddleDiscount("dsc_1", "active", Str("SAVE20"), "percentage", <<"2", "0">>, Null),
      [PaddleDiscount("dsc_2", "active", Str("HALF"), "percentage",
                      <<"1", "2", ".", "3", "4", "5">>, Str("2030-01-01T00:00:00Z"))
          EXCEPT !.description = Str("Half"), !.usage_limit = Num(10000)],
      PaddleDiscount("dsc_3", "active", Str("FLAT"), "flat", <<"5", "0", "0">>, Null),
      PaddleDiscount("dsc_4", "archived", Str("GONE"), "percentage", <<"2", "0">>, Null),
      PaddleDiscount("dsc_5", "active", Str("LATE"), "percentage", <<"2", "0">>,
                     Str("2020-01-01T00:00:00Z")),
      PaddleDiscount("dsc_6", "active", Null, "percentage", <<"2", "0">>, Null),
      PaddleDiscount("dsc_7", "active", Str("BIG"), "percentage", <<"1", "5", "0">>, Null),
      PaddleDiscount("dsc_8", "active", Str("NAN"), "percentage", <<"a", "b", "c">>, Null),
      PaddleDiscount("dsc_9", "active", Str("SEAT"), "flat_per_seat", <<"5">>, Null),
      PaddleDiscount("dsc_10", "active", Str("NEG"), "percentage", <<"-", "5">>, Null) }

PaddleDiscountValueNoRound(parsedAmount) == Times100(parsedAmount)

\* discountValue = Math.round(parsedAmount * 100)
PaddleDiscountValue(parsedAmount) == MathRound(Times100(parsedAmount))

\* What one discount pushes to discountsToMigrate at time clock: nothing or one
\* request.
PaddleDiscountToMigrate(discount, clock, brand) ==
    LET parsedAmount == ParseFloat(discount.amount)
    IN  IF discount.status # "active" THEN <<>>
        ELSE IF Truthy(discount.expires_at) /\ DateParse(discount.expires_at.s) < clock
        THEN <<>>
        ELSE IF ~Truthy(discount.code) THEN <<>>
        ELSE IF discount.type = "percentage"
        THEN IF parsedAmount.isNaN \/ parsedAmount.value < 0 \/ parsedAmount.value > 100000
             THEN <<>>
             ELSE << [code |-> discount.code,
                      name |-> OrElse(discount.description, discount.code),
                      type |-> "percentage",
                      amount |-> PaddleDiscountValue(Num(parsedAmount.value)),
                      usage_limit |-> OrElse(discount.usage_limit, Null),
                      expires_at |-> IF Truthy(discount.expires_at)
                                     THEN Str(DateToISOString(discount.expires_at.s))
                                     ELSE Null,
                      brand_id |-> brand] >>
        ELSE <<>>

PaddleDiscountsToMigrate(allDiscounts, clock, brand) ==
    Flatten([i \in 1..Len(allDiscounts) |->
                PaddleDiscountToMigrate(allDiscounts[i], clock, brand)])

PaddleDiscountsFlow == Flow("paddle", "discounts", 1246, "tty", TRUE)

\* ---- Stripe: migrateCoupons
StripeCoupon(id, isValid, percent_off, amount_off, promotionCodes) ==
    [id |-> id, name |-> Null, valid |-> isValid,
     percent_off |-> percent_off, amount_off |-> amount_off,
     currency |-> IF amount_off = Null THEN Null ELSE Str("usd"),
     max_redemptions |-> Null, redeem_by |-> Null,
     promotionCodes |-> promotionCodes]

\* Coupons: 20 percent off, 5.00 off, no longer valid, 12.5 percent off with two
\* promotion codes, and one with neither value.
StripeCoupons ==
    { StripeCoupon("TWENTY", TRUE, Num(20000), Null, <<>>),
      StripeCoupon("FIVEOFF", TRUE, Null, Num(500000), <<>>),
      StripeCoupon("OLD", FALSE, Num(20000), Null, <<>>),
      [StripeCoupon("HALF", TRUE, Num(12500), Null, <<"PROMO1", "PROMO2">>)
          EXCEPT !.name = Str("Half"), !.max_redemptions = Num(10000),
                 !.redeem_by = Num(86400000)],
      StripeCoupon("EMPTY", TRUE, Null, Null, <<>>) }

\* The object pushed to CouponsToMigrate for one code of one coupon.
StripeCouponToMigrate(coupon, code, brand) ==
    [code |-> Str(code),
     name |-> OrElse(coupon.name, Str(coupon.id)),
     discount_type |-> IF Truthy(coupon.percent_off) THEN "percentage" ELSE "fixed_amount",
     amount |-> IF Truthy(coupon.percent_off) THEN coupon.percent_off ELSE coupon.amount_off,
     currency |-> IF Truthy(coupon.amount_off)
                  THEN Str(ToUpperCase(coupon.currency.s)) ELSE Undefined,
     usage_limit |-> OrElse(coupon.max_redemptions, Null),
     expires_at |-> IF Truthy(coupon.redeem_by) THEN ToISOString(coupon.redeem_by) ELSE Null,
     brand_id |-> brand]

\* The loop over allCoupons: an invalid coupon and one with neither percent_off
\* nor amount_off give nothing; a coupon without promotion codes gives one
\* object with its id as the code, another one object per promotion code.
StripeCouponsToMigrate(allCoupons, brand) ==
    Flatten([i \in 1..Len(allCoupons) |->
        LET coupon == allCoupons[i]
        IN  IF ~coupon.valid THEN <<>>
            ELSE IF ~Truthy(coupon.percent_off) /\ ~Truthy(coupon.amount_off) THEN <<>>
            ELSE IF Len(coupon.promotionCodes) = 0
            THEN <<StripeCouponToMigrate(coupon, coupon.id, brand)>>
            ELSE [k \in 1..Len(coupon.promotionCodes) |->
                    StripeCouponToMigrate(coupon, coupon.promotionCodes[k], brand)]])

\* ---- one run of one migration function
\* The function is entered with the account's data already fetched.
InitProviders ==
    /\ op = "none"
    /\ discounts = <<>>
    /\ brandId = "brand_1"
    /\ statusFilter = Omitted
    /\ typeFilter = Omitted
    /\ thrown = NoError
    /\ requests = <<>>
    /\ valid = FALSE
    /\ filtered = <<>>
    /\ filteredAgain = <<>>
    /\ warnings = <<>>
    /\ pc = "start"
    /\ source = <<>>
    /\ perPage = 1
    /\ response = NoResponse
    /\ answer = "none"
    /\ created = <<>>
    /\ successCount = 0
    /\ failureCount = 0
    /\ completedCoupons = FALSE
    /\ flow \in Flows
    /\ isTTY \in BOOLEAN
    /\ asked = FALSE
    /\ items = <<>>
    /\ IF flow = PaddleProductsFlow
       THEN /\ products \in SeqsUpTo(PaddleProducts, MaxItems)
            /\ prices \in SeqsUpTo(PaddlePrices, MaxItems)
       ELSE /\ products = <<>>
            /\ prices = <<>>
    /\ IF flow = StripeCouponsFlow
       THEN coupons \in SeqsUpTo(StripeCoupons, MaxItems)
       ELSE IF flow = PaddleDiscountsFlow
       THEN coupons \in SeqsUpTo(PaddleDiscounts, MaxItems)
       ELSE coupons = <<>>
    /\ IF flow = PaddleDiscountsFlow THEN now \in Clock ELSE now = 0
    /\ completedProducts = FALSE
    /\ FetchIdle

\* Paddle migrateProducts up to the preview: it returns when there is no product
\* or nothing to migrate.
PaddlePreviewProducts ==
    /\ pc = "start"
    /\ flow = PaddleProductsFlow
    /\ items' = PaddleProductsToMigrate(products, prices, brandId)
    /\ pc' = IF Len(products) = 0 \/ Len(items') = 0 THEN "done" ELSE "preview"
    /\ UNCHANGED <<op, discounts, brandId, statusFilter, typeFilter, thrown, requests,
                   valid, filtered, filteredAgain, warnings>>
    /\ UNCHANGED <<source, perPage, response, answer, created, successCount,
                   failureCount, completedCoupons>>
    /\ UNCHANGED <<flow, isTTY, asked, products, prices, coupons>>
    /\ UNCHANGED auxVars

\* Paddle migrateDiscounts up to the preview: it returns when there is no discount
\* or nothing to migrate.
PaddlePreviewDiscounts ==
    /\ pc = "start"
    /\ flow = PaddleDiscountsFlow
    /\ items' = PaddleDiscountsToMigrate(coupons, now, brandId)
    /\ pc' = IF Len(items') = 0 THEN "done" ELSE "preview"
    /\ UNCHANGED <<op, discounts, brandId, statusFilter, typeFilter, thrown, requests,
                   valid, filtered, filteredAgain, warnings>>
    /\ UNCHANGED <<source, perPage, response, answer, created, successCount,
                   failureCount, completedCoupons>>
    /\ UNCHANGED <<flow, isTTY, asked, products, prices, coupons>>
    /\ UNCHANGED auxVars

\* Stripe migrateCoupons up to the preview: it returns when there is nothing to
\* migrate.
StripePreviewCoupons ==
    /\ pc = "start"
    /\ flow = StripeCouponsFlow
    /\ items' = StripeCouponsToMigrate(coupons, brandId)
    /\ pc' = IF Len(items') = 0 THEN "done" ELSE "preview"
    /\ UNCHANGED <<op, discounts, brandId, statusFilter, typeFilter, thrown, requests,
                   valid, filtered, filteredAgain, warnings>>
    /\ UNCHANGED <<source, perPage, response, answer, created, successCount,
                   failureCount, completedCoupons>>
    /\ UNCHANGED <<flow, isTTY, asked, products, prices, coupons>>
    /\ UNCHANGED auxVars

\* Any other function up to the preview, with between one and MaxItems requests
\* whose content is left open.
PreviewItems ==
    /\ pc = "start"
    /\ flow \notin {PaddleProductsFlow, PaddleDiscountsFlow, StripeCouponsFlow}
    /\ \E n \in 1..MaxItems : items' = [i \in 1..n |-> [item |-> i]]
    /\ pc' = "preview"
    /\ UNCHANGED <<op, discounts, brandId, statusFilter, typeFilter, thrown, requests,
                   valid, filtered, filteredAgain, warnings>>
    /\ UNCHANGED <<source, perPage, response, answer, created, successCount,
                   failureCount, completedCoupons>>
    /\ UNCHANGED <<flow, isTTY, asked, products, prices, coupons>>
    /\ UNCHANGED auxVars

\* The confirmation: await select(...) answers yes or no or is rejected (the
\* prompt is closed); the functions whose prompt is inside
\* if (process.stdin.isTTY) keep shouldProceed = 'yes' when stdin is no terminal.
ConfirmMigration ==
    /\ pc = "preview"
    /\ IF flow.prompt = "always" \/ isTTY
       THEN /\ asked' = TRUE
            /\ \E a \in {"yes", "no", "rejected"} : answer' = a
       ELSE /\ asked' = FALSE
            /\ answer' = "yes"
    /\ pc' = IF answer' = "yes" THEN "creating" ELSE "done"
    /\ UNCHANGED <<op, discounts, brandId, statusFilter, typeFilter, thrown, requests,
                   valid, filtered, filteredAgain, warnings>>
    /\ UNCHANGED <<source, perPage, response, created, successCount, failureCount,
                   completedCoupons>>
    /\ UNCHANGED <<flow, isTTY, items, products, prices, coupons>>
    /\ UNCHANGED auxVars

\* One turn of the creation loop: the create call returns or throws; an error
\* that no catch of the loop takes leaves the function.
CreateItem ==
    /\ pc = "creating"
    /\ Len(created) < Len(items)
    /\ \E ok \in BOOLEAN :
        /\ created' = Append(created, items[Len(created) + 1])
        /\ successCount' = IF ok THEN successCount + 1 ELSE successCount
        /\ failureCount' = IF ok THEN failureCount ELSE failureCount + 1
        /\ pc' = IF ~ok /\ ~flow.catches THEN "aborted"
                 ELSE IF Len(created') = Len(items) THEN "done"
                 ELSE "creating"
    /\ UNCHANGED <<op, discounts, brandId, statusFilter, typeFilter, thrown, requests,
                   valid, filtered, filteredAgain, warnings>>
    /\ UNCHANGED <<source, perPage, response, answer, completedCoupons>>
    /\ UNCHANGED runVars
    /\ UNCHANGED auxVars

NextProviders ==
    \/ PaddlePreviewProducts
    \/ PaddlePreviewDiscounts
    \/ StripePreviewCoupons
    \/ PreviewItems
    \/ ConfirmMigration
    \/ CreateItem

SpecProviders == InitProviders /\ [][NextProviders]_vars

\* ------------------------------------------- LemonSqueezy products branch
\* src/providers/lemonsqueezy/index.ts 110-212: the products of the account, the
\* store of each one fetched through the cache StoresData, the preview, the
\* confirmation and the creation loop.
StoreIds == {"store_1", "store_2"}

Currencies == {"USD", "EUR"}

LemonSqueezyProduct(name, store_id, price) ==
    [attributes |-> [name |-> name, store_id |-> store_id, price |-> price]]

LemonSqueezyProducts ==
    { LemonSqueezyProduct("Book", "store_1", 1000),
      LemonSqueezyProduct("Course", "store_1", 4900),
      LemonSqueezyProduct("Font", "store_2", 1500) }

\* getStore(storeId): the store with its currency, or an error
GetStore(storeId, error, statusCode) ==
    [error |-> error,
     statusCode |-> statusCode,
     data |-> IF error \/ statusCode # 200
              THEN Null
              ELSE [data |-> [id |-> storeId,
                              attributes |-> [currency |-> stores[storeId]]]]]

StoreIsCachedNever(cache, storeId) == FALSE

\* StoresData[store_id] is set
StoreIsCached(cache, storeId) == storeId \in DOMAIN cache

\* The entry pushed to Products for one product and the data of its store
LemonSqueezyProductEntry(product, StoreData, brand) ==
    [type |-> "one_time_product",
     data |-> [name |-> product.attributes.name,
               tax_category |-> "saas",
               price |-> [currency |-> StoreData.data.attributes.currency,
                          price |-> product.attributes.price,
                          discount |-> 0,
                          purchasing_power_parity |-> FALSE,
                          type |-> "one_time_price"],
               brand_id |-> brand]]

\* The handler has chosen the products migration; the account holds up to MaxLen
\* products in one or two stores, each store with its currency.
InitStores ==
    /\ CallIdle
    /\ pc = "start"
    /\ source = <<>>
    /\ perPage = 1
    /\ response = NoResponse
    /\ answer = "none"
    /\ created = <<>>
    /\ successCount = 0
    /\ failureCount = 0
    /\ completedCoupons = FALSE
    /\ flow = NoFlow
    /\ isTTY = TRUE
    /\ asked = FALSE
    /\ items = <<>>
    /\ products \in SeqsUpTo(LemonSqueezyProducts, MaxLen)
    /\ prices = <<>>
    /\ coupons = <<>>
    /\ now = 0
    /\ completedProducts = FALSE
    /\ fetcher = "none"
    /\ server = <<>>
    /\ pageIndex = 0
    /\ after = "none"
    /\ attempts = 0
    /\ allItems = <<>>
    /\ asks = <<>>
    /\ stores \in [StoreIds -> Currencies]
    /\ StoresData = <<>>
    /\ getStoreCalls = <<>>
    /\ migrateTypes = {}
    /\ results = <<>>
    /\ hasFailures = FALSE
    /\ exitStatus = -1
    /\ completedMigrations = <<>>

\* listProducts(): an error or a status other than 200 ends the process with 1.
LsListProducts ==
    /\ pc = "start"
    /\ \E error \in BOOLEAN, statusCode \in StatusCodes :
        /\ pc' = IF error \/ statusCode # 200 THEN "exit1"
                 ELSE IF Len(products) = 0 THEN "confirm"
                 ELSE "stores"
        /\ exitStatus' = IF error \/ statusCode # 200 THEN 1 ELSE exitStatus
    /\ UNCHANGED callVars
    /\ UNCHANGED <<source, perPage, response, answer, created, successCount,
                   failureCount, completedCoupons>>
    /\ UNCHANGED runVars
    /\ UNCHANGED <<now, fetcher, server, pageIndex, after, attempts, allItems, asks,
                   stores, StoresData, getStoreCalls, migrateTypes, results,
                   hasFailures, completedMigrations, completedProducts>>

\* One turn of for (let product of ListProducts.data.data): the store comes from
\* getStore when StoresData does not hold it, and a failed getStore ends the
\* process with 1; then the product is pushed with the currency of that store.
LsProductStore ==
    /\ pc = "stores"
    /\ Len(items) < Len(products)
    /\ LET product == products[Len(items) + 1]
           store_id == product.attributes.store_id
       IN  IF StoreIsCached(StoresData, store_id)
           THEN /\ items' = Append(items,
                        LemonSqueezyProductEntry(product, StoresData[store_id], brandId))
                /\ pc' = IF Len(items') = Len(products) THEN "confirm" ELSE "stores"
                /\ UNCHANGED <<StoresData, getStoreCalls, exitStatus>>
           ELSE \E error \in BOOLEAN, statusCode \in StatusCodes :
                  LET FetchStoreData == GetStore(store_id, error, statusCode)
                  IN  /\ getStoreCalls' = Append(getStoreCalls, store_id)
                      /\ IF error \/ statusCode # 200
                         THEN /\ pc' = "exit1"
                              /\ exitStatus' = 1
                              /\ UNCHANGED <<StoresData, items>>
                         ELSE /\ StoresData' =
                                    [id \in DOMAIN StoresData \cup {store_id} |->
                                        IF id = store_id THEN FetchStoreData.data
                                        ELSE StoresData[id]]
                              /\ items' = Append(items,
                                    LemonSqueezyProductEntry(product,
                                                             FetchStoreData.data, brandId))
                              /\ pc' = IF Len(items') = Len(products)
                                       THEN "confirm" ELSE "stores"
                              /\ UNCHANGED exitStatus
    /\ UNCHANGED callVars
    /\ UNCHANGED <<source, perPage, response, answer, created, successCount,
                   failureCount, completedCoupons>>
    /\ UNCHANGED <<flow, isTTY, asked, products, prices, coupons>>
    /\ UNCHANGED <<now, fetcher, server, pageIndex, after, attempts, allItems, asks,
                   stores, migrateTypes, results, hasFailures, completedMigrations,
                   completedProducts>>

\* The select prompt: 'yes' enters the creation loop, which is over at once when
\* there is no product.
LsConfirmProducts ==
    /\ pc = "confirm"
    /\ \E a \in {"yes", "no"} :
        /\ answer' = a
        /\ pc' = IF a = "yes" /\ Len(items) > 0 THEN "creating" ELSE "done"
        /\ completedProducts' = (a = "yes" /\ Len(items) = 0)
    /\ asked' = TRUE
    /\ UNCHANGED callVars
    /\ UNCHANGED <<source, perPage, response, created, successCount, failureCount,
                   completedCoupons>>
    /\ UNCHANGED <<flow, isTTY, items, products, prices, coupons>>
    /\ UNCHANGED <<now, fetcher, server, pageIndex, after, attempts, allItems, asks,
                   stores, StoresData, getStoreCalls, migrateTypes, results,
                   hasFailures, exitStatus, completedMigrations>>

\* One turn of for (let product of Products): client.products.create is not in a
\* try, so a create that throws leaves the handler.
LsCreateProduct ==
    /\ pc = "creating"
    /\ Len(created) < Len(items)
    /\ \E ok \in BOOLEAN :
        /\ created' = Append(created, items[Len(created) + 1].data)
        /\ pc' = IF ~ok THEN "aborted"
                 ELSE IF Len(created') = Len(items) THEN "done"
                 ELSE "creating"
        /\ completedProducts' = (ok /\ Len(created') = Len(items))
    /\ UNCHANGED callVars
    /\ UNCHANGED <<source, perPage, response, answer, successCount, failureCount,
                   completedCoupons>>
    /\ UNCHANGED runVars
    /\ UNCHANGED <<now, fetcher, server, pageIndex, after, attempts, allItems, asks,
                   stores, StoresData, getStoreCalls, migrateTypes, results,
                   hasFailures, exitStatus, completedMigrations>>

NextStores ==
    \/ LsListProducts
    \/ LsProductStore
    \/ LsConfirmProducts
    \/ LsCreateProduct

SpecStores == InitStores /\ [][NextStores]_vars

\* ------------------------------------------------- Paddle fetchAllPages
\* src/providers/lemonsqueezy-provider.js 655-700.  The server is a function
\* from the cursor of a request (NoCursor, the null of the first one, or the
\* number that stands for the after parameter) to the page it answers with: its
\* data, an array or not, and the next link of its meta.pagination.
NoCursor == 0

\* pagination.next: absent, a URL with an after parameter, a URL without one, or
\* a string new URL() rejects
Link(kind, cursor) == [kind |-> kind, after |-> cursor]

NextLinks(cursors) ==
    {Link("cursor", c) : c \in cursors}
    \cup {Link("absent", NoCursor), Link("no after", NoCursor), Link("invalid", NoCursor)}

\* The answers to a request with cursor c: data that is no array, an empty array,
\* or one item named after the page.
PagesAt(c, cursors) ==
    { [isArray |-> a, data |-> d, next |-> n] :
        a \in BOOLEAN, d \in {<<>>, <<c>>}, n \in NextLinks(cursors) } \
    { [isArray |-> FALSE, data |-> <<c>>, next |-> n] : n \in NextLinks(cursors) }

\* The accounts of three requests: every answer to each, the links leading to any
\* of them.
SmallServers ==
    { f \in [0..2 -> UNION {PagesAt(c, 1..2) : c \in 0..2}] :
        \A c \in 0..2 : f[c] \in PagesAt(c, 1..2) }

\* An account of pages pages, each with one item and a link to the next one.
LongServer(pages) ==
    [c \in 0..(pages - 1) |->
        [isArray |-> TRUE, data |-> <<c>>,
         next |-> IF c < pages - 1 THEN Link("cursor", c + 1)
                  ELSE Link("absent", NoCursor)]]

maxPages == 100

\* after = new URL(pagination.next).searchParams.get('after'), or null
AfterOf(page) == IF page.next.kind = "cursor" THEN page.next.after ELSE NoCursor

PagingStopsOnNullCursorOnly(cursor, page) == cursor = NoCursor

\* !after || (response.data && response.data.length === 0)
PagingStops(cursor, page) ==
    cursor = NoCursor \/ (page.isArray /\ Len(page.data) = 0)

FetchAllPagesRethrow == "raised"

\* catch (error) { console.log(...); break; } and then return allItems
FetchAllPagesCatch == "returned"

InitFetchAllPages ==
    /\ CallIdle
    /\ pc = "fetching"
    /\ source = <<>>
    /\ perPage = 1
    /\ response = NoResponse
    /\ answer = "none"
    /\ created = <<>>
    /\ successCount = 0
    /\ failureCount = 0
    /\ completedCoupons = FALSE
    /\ RunIdle
    /\ now = 0
    /\ completedProducts = FALSE
    /\ fetcher = "paddle"
    /\ server \in SmallServers
                 \cup {LongServer(n) : n \in {maxPages - 1, maxPages, maxPages + 1}}
    /\ pageIndex = 0
    /\ after = NoCursor
    /\ attempts = 0
    /\ allItems = <<>>
    /\ asks = <<>>
    /\ stores = <<>>
    /\ StoresData = <<>>
    /\ getStoreCalls = <<>>
    /\ migrateTypes = {}
    /\ results = <<>>
    /\ hasFailures = FALSE
    /\ exitStatus = -1
    /\ completedMigrations = <<>>

\* One turn of while (pageIndex < maxPages): the request throws (network error,
\* status not ok, body no JSON) or answers with the page of the cursor; an array
\* is pushed, the cursor is read from the next link (new URL throws on a string
\* that is no URL), the counter is raised, and the loop ends on a null cursor, an
\* empty array or the page limit.
PaddleFetchPage ==
    /\ pc = "fetching"
    /\ pageIndex < maxPages
    /\ \E ok \in BOOLEAN :
        LET page == server[after]
        IN  /\ asks' = Append(asks, [after |-> after, ok |-> ok])
            /\ IF ~ok
               THEN /\ pc' = FetchAllPagesCatch
                    /\ UNCHANGED <<allItems, after, pageIndex>>
               ELSE /\ allItems' = IF page.isArray THEN allItems \o page.data
                                   ELSE allItems
                    /\ IF page.next.kind = "invalid"
                       THEN /\ pc' = FetchAllPagesCatch
                            /\ UNCHANGED <<after, pageIndex>>
                       ELSE /\ after' = AfterOf(page)
                            /\ pageIndex' = pageIndex + 1
                            /\ pc' = IF PagingStops(after', page) \/ pageIndex' >= maxPages
                                     THEN "returned" ELSE "fetching"
    /\ UNCHANGED callVars
    /\ UNCHANGED <<source, perPage, response, answer, created, successCount,
                   failureCount, completedCoupons>>
    /\ UNCHANGED runVars
    /\ UNCHANGED <<now, fetcher, server, attempts, stores, StoresData, getStoreCalls,
                   migrateTypes, results, hasFailures, exitStatus,
                   completedMigrations, completedProducts>>

NextFetchAllPages == PaddleFetchPage

SpecFetchAllPages == InitFetchAllPages /\ [][NextFetchAllPages]_vars

\* ----------------------------------------------------- the Paddle handler
\* src/providers/lemonsqueezy-provider.js 742-892: the credentials, the connection
\* test and the brand, the choice of the migrations, the three migrations in
\* their order, and the exit status.
RequiredArguments == {"provider-api-key", "dodo-api-key", "dodo-brand-id"}

MigrationTypes == {"products", "discounts", "customers"}

\* The names --migrate-types may hold: the three types and a name that is none
ArgumentTypes == MigrationTypes \cup {"subscriptions"}

\* What a migration function returns: nothing (no data found, nothing compatible
\* or cancelled by the user), the counts of its creation loop, or the counts
\* {0, 1} of its outer catch.
NothingReturned == [defined |-> FALSE, successCount |-> 0, errorCount |-> 0]

Counts(successes, errors) ==
    [defined |-> TRUE, successCount |-> successes, errorCount |-> errors]

MigrationReturns ==
    {NothingReturned, Counts(0, 1)}
    \cup ({Counts(s, e) : s \in 0..MaxItems, e \in 0..MaxItems} \ {Counts(0, 0)})

MigrationFailedOrNothing(result) == ~result.defined \/ result.errorCount > 0

\* result && result.errorCount > 0
MigrationFailed(result) == result.defined /\ result.errorCount > 0

\* The migration after t in the handler
NextMigration(t) ==
    CASE t = "products" -> "discounts"
      [] t = "discounts" -> "customers"
      [] t = "customers" -> "exit"

InitPaddleHandler ==
    /\ CallIdle
    /\ pc = "setup"
    /\ source = <<>>
    /\ perPage = 1
    /\ response = NoResponse
    /\ answer = "none"
    /\ created = <<>>
    /\ successCount = 0
    /\ failureCount = 0
    /\ completedCoupons = FALSE
    /\ flow = NoFlow
    /\ isTTY \in BOOLEAN
    /\ asked = FALSE
    /\ items = <<>>
    /\ products = <<>>
    /\ prices = <<>>
    /\ coupons = <<>>
    /\ AuxIdle

\* Credentials, connection test and brand: an argument missing without a
\* terminal, a failed request to Paddle, or a failed brands.list() when the brand
\* has to be asked for, end the process with 1.
PaddleSetup ==
    /\ pc = "setup"
    /\ \E given \in SUBSET RequiredArguments, connected \in BOOLEAN, brandsListed \in BOOLEAN :
        LET failed == \/ given # RequiredArguments /\ ~isTTY
                      \/ ~connected
                      \/ "dodo-brand-id" \notin given /\ ~brandsListed
        IN  /\ pc' = IF failed THEN "exit1" ELSE "select"
            /\ exitStatus' = IF failed THEN 1 ELSE exitStatus
            /\ asked' = (isTTY /\ given # RequiredArguments)
    /\ UNCHANGED callVars
    /\ UNCHANGED <<source, perPage, response, answer, created, successCount,
                   failureCount, completedCoupons>>
    /\ UNCHANGED <<flow, isTTY, items, products, prices, coupons>>
    /\ UNCHANGED <<now, fetcher, server, pageIndex, after, attempts, allItems, asks,
                   stores, StoresData, getStoreCalls, migrateTypes, results,
                   hasFailures, completedMigrations, completedProducts>>

\* migrateTypes: the names of --migrate-types, or products alone without a
\* terminal, or the boxes the user checked (at least one).
PaddleSelectTypes ==
    /\ pc = "select"
    /\ \E argument \in SUBSET ArgumentTypes :
        \E checked \in (SUBSET MigrationTypes) \ {{}} :
            migrateTypes' = IF argument # {} THEN argument
                            ELSE IF ~isTTY THEN {"products"}
                            ELSE checked
    /\ pc' = "products"
    /\ UNCHANGED callVars
    /\ UNCHANGED <<source, perPage, response, answer, created, successCount,
                   failureCount, completedCoupons>>
    /\ UNCHANGED runVars
    /\ UNCHANGED <<now, fetcher, server, pageIndex, after, attempts, allItems, asks,
                   stores, StoresData, getStoreCalls, results, hasFailures,
                   exitStatus, completedMigrations, completedProducts>>

\* if (migrateTypes.includes(type)) { result = await migrate...(); if (result &&
\* result.errorCount > 0) hasFailures = true; } for the type the handler is at.
PaddleRunMigration ==
    /\ pc \in MigrationTypes
    /\ IF pc \in migrateTypes
       THEN \E result \in MigrationReturns :
               /\ results' = Append(results, [type |-> pc, result |-> result])
               /\ hasFailures' = (hasFailures \/ MigrationFailed(result))
       ELSE UNCHANGED <<results, hasFailures>>
    /\ pc' = NextMigration(pc)
    /\ UNCHANGED callVars
    /\ UNCHANGED <<source, perPage, response, answer, created, successCount,
                   failureCount, completedCoupons>>
    /\ UNCHANGED runVars
    /\ UNCHANGED <<now, fetcher, server, pageIndex, after, attempts, allItems, asks,
                   stores, StoresData, getStoreCalls, migrateTypes, exitStatus,
                   completedMigrations, completedProducts>>

\* if (hasFailures) process.exit(1) else process.exit(0)
PaddleExit ==
    /\ pc = "exit"
    /\ exitStatus' = IF hasFailures THEN 1 ELSE 0
    /\ pc' = "exited"
    /\ UNCHANGED callVars
    /\ UNCHANGED <<source, perPage, response, answer, created, successCount,
                   failureCount, completedCoupons>>
    /\ UNCHANGED runVars
    /\ UNCHANGED <<now, fetcher, server, pageIndex, after, attempts, allItems, asks,
                   stores, StoresData, getStoreCalls, migrateTypes, results,
                   hasFailures, completedMigrations, completedProducts>>

NextPaddleHandler ==
    \/ PaddleSetup
    \/ PaddleSelectTypes
    \/ PaddleRunMigration
    \/ PaddleExit

SpecPaddleHandler == InitPaddleHandler /\ [][NextPaddleHandler]_vars

\* -------------------------------------------------- Polar paginated fetch
\* src/providers/polar/index.ts 167-201 (products), 320-354 (coupons), 424-458
\* (customers): page numbers from 1, each request repeated while it is answered
\* 429, up to three requests.
MaxPages == 3

pageSize == 50

\* HTTP status of an answer: ok, too many requests, another failure
PolarStatuses == {200, 429, 500}

\* How many items a page answered with 200 may hold: none (or a body that is no
\* JSON), one less than asked for, as many, and more.
PolarCounts == {0, pageSize - 1, pageSize, pageSize + 1}

\* The items of page number page when it holds count items
PageItems(page, count) == [k \in 1..count |-> [page |-> page, index |-> k]]

RetryAfterAnyFailure(status) == status # 200

\* if (resp.status === 429) { ...; attempts++; continue; }
RetryAfter(status) == status = 429

InitPolarFetch ==
    /\ CallIdle
    /\ pc = "fetching"
    /\ source = <<>>
    /\ perPage = 1
    /\ response = NoResponse
    /\ answer = "none"
    /\ created = <<>>
    /\ successCount = 0
    /\ failureCount = 0
    /\ completedCoupons = FALSE
    /\ flow \in PolarFlows
    /\ isTTY = TRUE
    /\ asked = FALSE
    /\ items = <<>>
    /\ products = <<>>
    /\ prices = <<>>
    /\ coupons = <<>>
    /\ now = 0
    /\ completedProducts = FALSE
    /\ fetcher = "polar"
    /\ server = <<>>
    /\ pageIndex = 1
    /\ after = "none"
    /\ attempts = 0
    /\ allItems = <<>>
    /\ asks = <<>>
    /\ stores = <<>>
    /\ StoresData = <<>>
    /\ getStoreCalls = <<>>
    /\ migrateTypes = {}
    /\ results = <<>>
    /\ hasFailures = FALSE
    /\ exitStatus = -1
    /\ completedMigrations = <<>>

\* One request of the page the loop is at.  A 429 raises attempts and asks again
\* while attempts < 3; the answer the inner loop ends with stops the paging when
\* it is not ok, when it holds no item, or after its items are pushed when they
\* are fewer than pageSize; otherwise the next page follows with attempts = 0.
\* After the paging the function returns when nothing was fetched, and maps the
\* items otherwise.
PolarRequest ==
    /\ pc = "fetching"
    /\ pageIndex <= MaxPages
    /\ \E status \in PolarStatuses, count \in PolarCounts :
        LET again == RetryAfter(status) /\ attempts + 1 < 3
            pushed == IF status = 200 THEN allItems \o PageItems(pageIndex, count)
                      ELSE allItems
            more == status = 200 /\ count >= pageSize
        IN  /\ status # 200 => count = 0
            /\ asks' = Append(asks, [page |-> pageIndex, status |-> status,
                                      count |-> count])
            /\ allItems' = pushed
            /\ attempts' = IF RetryAfter(status) THEN attempts + 1
                           ELSE IF more THEN 0 ELSE attempts
            /\ pageIndex' = IF more THEN pageIndex + 1 ELSE pageIndex
            /\ pc' = IF again \/ more THEN "fetching"
                     ELSE IF Len(pushed) = 0 THEN "done"
                     ELSE "mapping"
    /\ UNCHANGED callVars
    /\ UNCHANGED <<source, perPage, response, answer, created, successCount,
                   failureCount, completedCoupons>>
    /\ UNCHANGED runVars
    /\ UNCHANGED <<now, fetcher, server, after, stores, StoresData, getStoreCalls,
                   migrateTypes, results, hasFailures, exitStatus,
                   completedMigrations, completedProducts>>

NextPolarFetch == PolarRequest

SpecPolarFetch == InitPolarFetch /\ [][NextPolarFetch]_vars

\* ------------------------------------------------ page-number pagination
\* The loops that ask for page 1, 2, 3, ... until a page comes back short:
\* src/providers/gumroad/index.ts 358-384, unnamed/part_000 152-180 and 261-290,
\* src/providers/paddle/index.ts 367-391.
GumroadCustomersFlow == Flow("gumroad", "customers", 429, "always", TRUE)

TwoCheckoutDiscountsFlow == Flow("2checkout", "discounts", 235, "always", TRUE)

TwoCheckoutCustomersFlow == Flow("2checkout", "customers", 340, "always", TRUE)

PaddleClassicCustomersFlow == Flow("paddle-classic", "customers", 436, "always", TRUE)

PageLoopFlows ==
    {GumroadCustomersFlow, TwoCheckoutDiscountsFlow, TwoCheckoutCustomersFlow,
     PaddleClassicCustomersFlow}

\* The page size each loop compares the length of a page with
PageSizeOf(f) ==
    CASE f = GumroadCustomersFlow -> 10
      [] f = TwoCheckoutDiscountsFlow -> 100
      [] f = TwoCheckoutCustomersFlow -> 100
      [] f = PaddleClassicCustomersFlow -> 50

\* A request throws, is answered with a body without the list, or is answered with
\* a list.
PageOutcomes == {"throws", "unexpected", "answered"}

\* The lengths of an answered list: none, one less than a page, a page, and more
PageCounts(size) == {0, size - 1, size, size + 1}

PageIsLastWhenEmpty(count, size) == count = 0

\* if (pageCustomers.length < pageSize) hasMore = false; else page++
PageIsLast(count, size) == count < size

InitPageLoop ==
    /\ CallIdle
    /\ pc = "fetching"
    /\ source = <<>>
    /\ perPage = 1
    /\ response = NoResponse
    /\ answer = "none"
    /\ created = <<>>
    /\ successCount = 0
    /\ failureCount = 0
    /\ completedCoupons = FALSE
    /\ flow \in PageLoopFlows
    /\ isTTY = TRUE
    /\ asked = FALSE
    /\ items = <<>>
    /\ products = <<>>
    /\ prices = <<>>
    /\ coupons = <<>>
    /\ now = 0
    /\ completedProducts = FALSE
    /\ fetcher = "page number"
    /\ server = <<>>
    /\ pageIndex = 1
    /\ after = "none"
    /\ attempts = 0
    /\ allItems = <<>>
    /\ asks = <<>>
    /\ stores = <<>>
    /\ StoresData = <<>>
    /\ getStoreCalls = <<>>
    /\ migrateTypes = {}
    /\ results = <<>>
    /\ hasFailures = FALSE
    /\ exitStatus = -1
    /\ completedMigrations = <<>>

\* One turn of while (hasMore): a request that throws goes to the catch of the
\* function; a body without the list makes the function log an error and return;
\* otherwise the list is appended, and a short one ends the loop, after which the
\* function returns when it holds nothing and goes on to the preview otherwise.
PageRequest ==
    /\ pc = "fetching"
    /\ pageIndex <= MaxPages
    /\ \E outcome \in PageOutcomes, count \in PageCounts(PageSizeOf(flow)) :
        LET appended == allItems \o PageItems(pageIndex, count)
        IN  /\ outcome # "answered" => count = 0
            /\ asks' = Append(asks, [page |-> pageIndex, outcome |-> outcome,
                                      count |-> count])
            /\ CASE outcome = "throws" ->
                      /\ pc' = "failed"
                      /\ UNCHANGED <<allItems, pageIndex>>
                 [] outcome = "unexpected" ->
                      /\ pc' = "returned"
                      /\ UNCHANGED <<allItems, pageIndex>>
                 [] outcome = "answered" ->
                      /\ allItems' = appended
                      /\ IF PageIsLast(count, PageSizeOf(flow))
                         THEN /\ pc' = IF Len(appended) = 0 THEN "done" ELSE "mapping"
                              /\ UNCHANGED pageIndex
                         ELSE /\ pc' = "fetching"
                              /\ pageIndex' = pageIndex + 1
    /\ UNCHANGED callVars
    /\ UNCHANGED <<source, perPage, response, answer, created, successCount,
                   failureCount, completedCoupons>>
    /\ UNCHANGED runVars
    /\ UNCHANGED <<now, fetcher, server, after, attempts, stores, StoresData,
                   getStoreCalls, migrateTypes, results, hasFailures, exitStatus,
                   completedMigrations, completedProducts>>

NextPageLoop == PageRequest

SpecPageLoop == InitPageLoop /\ [][NextPageLoop]_vars

\* ----------------------------------------------------------------- claims
\* The requests transformToDodoPayments would return for each discount of ds
\* that passes validation and can be transformed, in input order.
RECURSIVE RequestsOfValid(_, _)
RequestsOfValid(ds, brand) ==
    IF ds = <<>> THEN <<>>
    ELSE (IF ValidateCanonicalDiscount(Head(ds))
          THEN TransformToDodoPayments(Head(ds), brand).returned
          ELSE <<>>) \o RequestsOfValid(Tail(ds), brand)

\* K: how many discounts of ds fail validateCanonicalDiscount.
InvalidCount(ds) == Cardinality({i \in 1..Len(ds) : ~ValidateCanonicalDiscount(ds[i])})

\* C1: for a discount that passes validateCanonicalDiscount and has
\* isPercent = true, transformToDodoPayments returns a request whose amount
\* is round(amount * 100).
C1_AmountIsRoundedBasisPoints ==
    (/\ op = "transformToDodoPayments"
     /\ ValidateCanonicalDiscount(discounts[1])
     /\ discounts[1].isPercent)
    => /\ thrown = NoError
       /\ Len(requests) = 1
       /\ requests[1].amount = MathRound(Num(discounts[1].amount.n * 100))

\* C2 as stated: for every discount with isPercent = false, whatever its
\* other fields, transformToDodoPayments returns no request and throws the
\* unsupported-discount error, which is not the invalid-discount error.
C2_FixedAlwaysUnsupported ==
    (op = "transformToDodoPayments" /\ ~discounts[1].isPercent)
    => /\ requests = <<>>
       /\ thrown = UnsupportedDiscountError
       /\ thrown # InvalidDiscountError

\* C2 amended: for every discount with isPercent = false and a non-empty
\* name and code, transformToDodoPayments returns no request and throws the
\* unsupported-discount error, which is not the invalid-discount error; with
\* an empty name or code it returns no request and throws the
\* invalid-discount error.
C2_FixedUnsupportedWhenNamed ==
    (op = "transformToDodoPayments" /\ ~discounts[1].isPercent)
    => /\ requests = <<>>
       /\ (discounts[1].name # "" /\ discounts[1].code # "")
            => (thrown = UnsupportedDiscountError /\ thrown # InvalidDiscountError)
       /\ (discounts[1].name = "" \/ discounts[1].code = "")
            => thrown = InvalidDiscountError

\* C2 witness: a fixed-amount discount with name and code was rejected as
\* unsupported.
C2_Witness ==
    /\ op = "transformToDodoPayments"
    /\ ~discounts[1].isPercent
    /\ discounts[1].name # ""
    /\ discounts[1].code # ""
    /\ thrown = UnsupportedDiscountError
    /\ requests = <<>>

\* C3: for N discounts of which K fail validateCanonicalDiscount,
\* transformMultipleToDodoPayments returns N-K requests, one per valid input
\* in input order, and its only warning carries the count K.
C3_BatchExclusionCount ==
    op = "transformMultipleToDodoPayments"
    => /\ thrown = NoError
       /\ Len(requests) = Len(discounts) - InvalidCount(discounts)
       /\ requests = RequestsOfValid(discounts, brandId)
       /\ Len(warnings) <= 1
       /\ InvalidCount(discounts) > 0 => warnings = <<InvalidCount(discounts)>>

\* C4: when a discount that passed validation cannot be transformed, the
\* batch call still returns the requests of the other valid discounts.
C4_FailureDoesNotAbortBatch ==
    (/\ op = "transformMultipleToDodoPayments"
     /\ \E i \in 1..Len(discounts) :
            /\ ValidateCanonicalDiscount(discounts[i])
            /\ TransformToDodoPayments(discounts[i], brandId).thrown # NoError)
    => /\ thrown = NoError
       /\ requests = RequestsOfValid(discounts, brandId)

\* C5 as stated: transformToDodoPayments on a discount that violates any
\* validator invariant returns no request and throws the invalid-discount
\* error.
C5_InvalidAlwaysRejected ==
    (op = "transformToDodoPayments" /\ ~ValidateCanonicalDiscount(discounts[1]))
    => (requests = <<>> /\ thrown = InvalidDiscountError)

\* C5 amended: transformToDodoPayments returns no request and throws the
\* invalid-discount error exactly when the name or the code is empty; the
\* other validator invariants (id, amount, duration, durationInMonths) are
\* not checked by it.
C5_EmptyNameOrCodeRejected ==
    op = "transformToDodoPayments"
    => /\ (discounts[1].name = "" \/ discounts[1].code = "")
            => (requests = <<>> /\ thrown = InvalidDiscountError)
       /\ thrown = InvalidDiscountError
            => (discounts[1].name = "" \/ discounts[1].code = "")

\* C5 witness: a discount with a name but an empty code was rejected as
\* invalid.
C5_Witness ==
    /\ op = "transformToDodoPayments"
    /\ discounts[1].name # ""
    /\ discounts[1].code = ""
    /\ thrown = InvalidDiscountError
    /\ requests = <<>>

\* durationInMonths is a number greater than 0
PositiveMonths(d) == d.durationInMonths.t = "number" /\ d.durationInMonths.n > 0

\* C6: validateCanonicalDiscount returns false whenever exactly one of
\* "duration is repeating" and "durationInMonths is a number greater than 0"
\* holds.
C6_DurationInvariant ==
    (/\ op = "validateCanonicalDiscount"
     /\ (discounts[1].duration = "repeating") # PositiveMonths(discounts[1]))
    => valid = FALSE

\* The invariants of a discount other than the one on durationInMonths.
OtherInvariantsHold(d) ==
    /\ d.id # "" /\ d.name # "" /\ d.code # ""
    /\ d.amount.t = "number" /\ d.amount.n >= 0
    /\ d.duration \in {"once", "repeating", "forever"}

\* C6 witness: a discount that is otherwise valid, repeating with null
\* months, was validated.
C6_Witness ==
    /\ op = "validateCanonicalDiscount"
    /\ OtherInvariantsHold(discounts[1])
    /\ discounts[1].duration = "repeating"
    /\ discounts[1].durationInMonths = Null
    /\ valid = FALSE

\* C7 as stated: validateCanonicalDiscount returns true exactly when id, name
\* and code are non-empty, amount is a non-negative number, duration is one
\* of once, repeating, forever, and either duration is repeating and
\* durationInMonths is a positive integer, or it is not and durationInMonths
\* is null.
C7_ValidIffInvariantsInteger ==
    op = "validateCanonicalDiscount"
    => (valid <=>
          /\ OtherInvariantsHold(discounts[1])
          /\ \/ /\ discounts[1].duration = "repeating"
                /\ IsInteger(discounts[1].durationInMonths)
                /\ discounts[1].durationInMonths.n > 0
             \/ /\ discounts[1].duration # "repeating"
                /\ discounts[1].durationInMonths = Null)

\* C7 amended: as stated, but with "a positive number" (integer or not) in
\* place of "a positive integer".
C7_ValidIffInvariantsNumber ==
    op = "validateCanonicalDiscount"
    => (valid <=>
          /\ OtherInvariantsHold(discounts[1])
          /\ \/ /\ discounts[1].duration = "repeating"
                /\ PositiveMonths(discounts[1])
             \/ /\ discounts[1].duration # "repeating"
                /\ discounts[1].durationInMonths = Null)

\* C7 witness: a repeating discount of 1.5 months was found valid.
C7_Witness ==
    /\ op = "validateCanonicalDiscount"
    /\ discounts[1].duration = "repeating"
    /\ discounts[1].durationInMonths = Num(1500)
    /\ valid = TRUE

\* x is kept under the filters s and t: each filter is omitted or matches.
Keeps(x, s, t) ==
    /\ (s = Omitted \/ x.status = s)
    /\ (t = Omitted \/ x.isPercent = (t = "percentage"))

\* C8: filterDiscounts returns exactly the discounts x of its input with
\* (statusFilter omitted or x.status = statusFilter) and (typeFilter omitted
\* or x.isPercent = (typeFilter = 'percentage')); with both filters omitted
\* it returns the whole input.
C8_FilterKeepsExactlyMatching ==
    op = "filterDiscounts"
    => /\ filtered = SelectSeq(discounts, LAMBDA x : Keeps(x, statusFilter, typeFilter))
       /\ (statusFilter = Omitted /\ typeFilter = Omitted) => filtered = discounts

\* C8 witness: a call with both filters given kept some discounts and dropped
\* one for its status and one for its type.
C8_Witness ==
    /\ op = "filterDiscounts"
    /\ statusFilter # Omitted
    /\ typeFilter # Omitted
    /\ filtered # <<>>
    /\ \E i \in 1..Len(discounts) :
           /\ discounts[i].status # statusFilter
           /\ discounts[i].isPercent = (typeFilter = "percentage")
    /\ \E i \in 1..Len(discounts) :
           /\ discounts[i].status = statusFilter
           /\ discounts[i].isPercent # (typeFilter = "percentage")

\* C9: filtering the result of filterDiscounts again with the same filters
\* returns that result unchanged.
C9_FilterIdempotent ==
    op = "filterDiscountsAgain" => filteredAgain = filtered

\* C9 witness: the first call dropped a discount and kept at least two, and
\* the result was filtered again.
C9_Witness ==
    /\ op = "filterDiscountsAgain"
    /\ Len(filtered) < Len(discounts)
    /\ Len(filtered) >= 2
    /\ filteredAgain = filtered

\* sub is xs with some elements left out: same elements, same order, none twice.
RECURSIVE IsSubsequence(_, _)
IsSubsequence(sub, xs) ==
    IF sub = <<>> THEN TRUE
    ELSE IF xs = <<>> THEN FALSE
    ELSE IF Head(sub) = Head(xs) THEN IsSubsequence(Tail(sub), Tail(xs))
    ELSE IsSubsequence(sub, Tail(xs))

\* C10: a call of filterDiscounts leaves the caller's array and the discounts
\* in it as they were, and returns a subsequence of it: kept discounts are in
\* input order, none duplicated, none altered.
C10_FilterFrame ==
    [][(op = "none" /\ op' = "filterDiscounts")
         => (discounts' = discounts /\ IsSubsequence(filtered', discounts))]_vars

\* C10 witness: a call returned fewer discounts than it was given, among them
\* two different ones.
C10_Witness ==
    /\ op = "filterDiscounts"
    /\ Len(filtered) < Len(discounts)
    /\ Len(filtered) >= 2
    /\ filtered[1] # filtered[2]

\* C11: a request returned by transformToDodoPayments has type 'percentage',
\* the given brandId as brand_id, and name, code, usage_limit, expires_at,
\* duration and duration_in_months equal to the discount's name, code,
\* usageLimit, expiresAt, duration and durationInMonths; it has no other
\* field than these and amount, so providerData, id and status are not in it.
C11_FieldPassthrough ==
    (op = "transformToDodoPayments" /\ thrown = NoError)
    => /\ Len(requests) = 1
       /\ requests[1].type = "percentage"
       /\ requests[1].brand_id = brandId
       /\ requests[1].name = discounts[1].name
       /\ requests[1].code = discounts[1].code
       /\ requests[1].usage_limit = discounts[1].usageLimit
       /\ requests[1].expires_at = discounts[1].expiresAt
       /\ requests[1].duration = discounts[1].duration
       /\ requests[1].duration_in_months = discounts[1].durationInMonths
       /\ DOMAIN requests[1] = {"name", "code", "type", "amount", "usage_limit",
                                "expires_at", "brand_id", "duration",
                                "duration_in_months"}

\* C11 witness: a repeating discount with a usage limit and an expiry date was
\* transformed for brand_2.
C11_Witness ==
    /\ op = "transformToDodoPayments"
    /\ thrown = NoError
    /\ brandId = "brand_2"
    /\ discounts[1].usageLimit = Num(10000)
    /\ discounts[1].expiresAt # Null
    /\ discounts[1].duration = "repeating"
    /\ discounts[1].durationInMonths = Num(3000)
    /\ Len(requests) = 1

\* C12: whenever the listDiscounts response carries an error or a status code
\* other than 200, importLemonSqueezyDiscounts throws: it returns no discounts,
\* not even a partial list, and the branch goes to its catch.
C12_ImportErrorPropagates ==
    (pc # "start" /\ (response.error \/ response.statusCode # 200))
    => /\ thrown = ImportError
       /\ discounts = <<>>
       /\ pc = "exit1"

C12_Witness ==
    /\ pc = "exit1"
    /\ ~response.error
    /\ response.statusCode = 500
    /\ Len(source) = 2
    /\ thrown = ImportError

RECURSIVE MapTransformLemonSqueezyDiscount(_)
MapTransformLemonSqueezyDiscount(all) ==
    IF all = <<>> THEN <<>>
    ELSE <<TransformLemonSqueezyDiscount(Head(all))>>
         \o MapTransformLemonSqueezyDiscount(Tail(all))

\* C13: a successful import returns one canonical discount per discount of the
\* account, those of every page, in the account's order.
C13_AllPagesImported ==
    (pc = "imported") => discounts = MapTransformLemonSqueezyDiscount(source)

\* C14: the canonical discount keeps the duration when it is once, forever or
\* repeating and has once otherwise; it has the number of months only when the
\* duration is repeating, null otherwise; it is a percentage exactly when
\* amount_type is percent; its usage limit is max_redemptions when redemptions
\* are limited, null otherwise; and every discount of the answer has one.
C14_TransformMapping ==
    (pc = "imported")
    => /\ Len(discounts) = Len(response.data)
       /\ \A i \in 1..Len(discounts) :
            LET attributes == response.data[i].attributes
                discount == discounts[i]
            IN  /\ discount.duration =
                     (IF attributes.duration \in {"once", "forever", "repeating"}
                      THEN attributes.duration ELSE "once")
                /\ discount.durationInMonths =
                     (IF attributes.duration = "repeating"
                      THEN attributes.duration_in_months ELSE Null)
                /\ discount.isPercent = (attributes.amount_type = "percent")
                /\ discount.usageLimit =
                     (IF attributes.is_limited_redemptions
                      THEN attributes.max_redemptions ELSE Null)
                /\ discount.id = response.data[i].id
                /\ discount.status = attributes.status

C14_Witness ==
    /\ pc = "imported"
    /\ Len(discounts) = 1
    /\ response.data[1].attributes.duration = "weekly"
    /\ response.data[1].attributes.duration_in_months = Num(3000)
    /\ response.data[1].attributes.amount_type = "fixed"
    /\ ~response.data[1].attributes.is_limited_redemptions
    /\ response.data[1].attributes.max_redemptions = Num(10000)
    /\ discounts[1].duration = "once"

C16_NoCreateBeforeYes ==
    Len(created) > 0 => (asked /\ answer = "yes")

\* C17: once the run is confirmed, every previewed item gets exactly one create
\* attempt, in preview order, whatever create calls fail.
C17_EveryItemAttempted ==
    (pc \in {"done", "aborted"} /\ answer = "yes") => created = items

IsRecurring(request) ==
    /\ "data" \in DOMAIN request
    /\ request.data.price.type = "recurring_price"

\* C18: every subscription product request has a subscription period of 20
\* years, which is never the payment frequency.
C18_SubscriptionPeriodTwentyYears ==
    (flow = PaddleProductsFlow)
    => \A i \in 1..Len(items) :
          IsRecurring(items[i])
          => LET price == items[i].data.price
             IN  /\ price.subscription_period_interval = "Year"
                 /\ price.subscription_period_count = 20
                 /\ ~(/\ price.subscription_period_interval = price.payment_frequency_interval
                      /\ price.subscription_period_count = price.payment_frequency_count)

\* C19: every discount request passed to client.discounts.create has type
\* percentage and, as its amount, a percentage of the account times 100.
C19_PercentageInBasisPoints ==
    (flow = StripeCouponsFlow)
    => \A i \in 1..Len(created) :
          /\ "type" \in DOMAIN created[i]
          /\ created[i].type = "percentage"
          /\ \E j \in 1..Len(coupons) :
                /\ Truthy(coupons[j].percent_off)
                /\ created[i].amount = Times100(coupons[j].percent_off)

\* The prices that give an entry: active, of the product, with an amount that
\* parses to a non-negative integer and, when recurring, billed by month or year.
Eligible(product, price) ==
    /\ product.status = "active"
    /\ price.product_id = product.id
    /\ price.status = "active"
    /\ ~ParseInt(price.unit_price.amount).isNaN
    /\ ParseInt(price.unit_price.amount).value >= 0
    /\ price.billing_cycle.isNull \/ price.billing_cycle.interval \in {"month", "year"}

EligiblePairs ==
    { pair \in (1..Len(products)) \X (1..Len(prices)) :
        Eligible(products[pair[1]], prices[pair[2]]) }

\* C20: in the Paddle product migration every entry comes from an active product
\* and an active price of it whose amount parses to a non-negative integer and
\* which, when recurring, is billed by month (monthly) or by year (yearly); and
\* every such price of every such product has its own entry.
C20_PaddleEntries ==
    (flow = PaddleProductsFlow /\ pc # "start")
    => /\ \A i \in 1..Len(items) :
            \E pair \in EligiblePairs :
                LET product == products[pair[1]]
                    price == prices[pair[2]]
                IN  /\ items[i].data.metadata.paddle_product_id = product.id
                    /\ items[i].data.metadata.paddle_price_id = price.id
                    /\ items[i].data.price.price = ParseInt(price.unit_price.amount).value
                    /\ IF price.billing_cycle.isNull
                       THEN items[i].type = "one_time_product"
                       ELSE /\ items[i].type = "subscription_product"
                            /\ items[i].data.price.billing_period =
                                 (IF price.billing_cycle.interval = "month"
                                  THEN "monthly" ELSE "yearly")
       /\ Len(items) = Cardinality(EligiblePairs)

C20_Witness ==
    /\ flow = PaddleProductsFlow
    /\ pc = "preview"
    /\ Len(products) = 2
    /\ Len(items) = 2
    /\ products[1].status = "archived"
    /\ items[1].type = "subscription_product"
    /\ items[1].data.price.billing_period = "yearly"
    /\ items[2].type = "one_time_product"

\* The discounts that give a request when the migration runs at the time now:
\* active, not expired, with a code, a percentage whose amount parses to a number
\* between 0 and 100.
EligibleDiscount(discount) ==
    /\ discount.status = "active"
    /\ discount.expires_at = Null \/ DateParse(discount.expires_at.s) >= now
    /\ discount.code # Null /\ discount.code.s # ""
    /\ discount.type = "percentage"
    /\ ~ParseFloat(discount.amount).isNaN
    /\ ParseFloat(discount.amount).value >= 0
    /\ ParseFloat(discount.amount).value <= 100000

\* amount is the whole number of basis points nearest to p percent (p in
\* thousandths), the half going up.
IsRoundedBasisPoints(amount, p) ==
    /\ amount.t = "number"
    /\ amount.n % 1000 = 0
    /\ amount.n - 100 * p <= 500
    /\ 100 * p - amount.n < 500

\* C21: in the Paddle discount migration every entry comes from a discount that is
\* active, not expired, has a code and is a percentage between 0 and 100; its
\* amount is that percentage in basis points, rounded; and every other discount
\* gives no entry.
C21_PaddleDiscountEntries ==
    (flow = PaddleDiscountsFlow /\ pc # "start")
    => LET eligible == SelectSeq(coupons, EligibleDiscount)
       IN  /\ Len(items) = Len(eligible)
           /\ \A i \in 1..Len(items) :
                /\ items[i].code = eligible[i].code
                /\ items[i].type = "percentage"
                /\ IsRoundedBasisPoints(items[i].amount,
                                        ParseFloat(eligible[i].amount).value)

C21_Witness ==
    /\ flow = PaddleDiscountsFlow
    /\ pc = "preview"
    /\ now = 2025
    /\ Len(coupons) = 2
    /\ coupons[1].type = "flat"
    /\ Len(items) = 1
    /\ items[1].amount = Num(1235000)

\* C22: the request of a Paddle price whose tax_mode is internal has
\* price.tax_inclusive = true, and that of a price whose tax_mode is external has
\* no tax_inclusive field.
C22_TaxInclusive ==
    (flow = PaddleProductsFlow /\ pc # "start")
    => \A i \in 1..Len(items) :
          \A j \in 1..Len(prices) :
             (prices[j].id = items[i].data.metadata.paddle_price_id)
             => IF prices[j].tax_mode = "internal"
                THEN /\ "tax_inclusive" \in DOMAIN items[i].data.price
                     /\ items[i].data.price.tax_inclusive = TRUE
                ELSE "tax_inclusive" \notin DOMAIN items[i].data.price

\* C23: in one run of the LemonSqueezy products migration getStore is called at
\* most once for each store_id, a product whose store is in the cache makes no
\* call, and every product is pushed with the currency of its own store.
C23_StoreFetchedOnce ==
    /\ \A i, j \in 1..Len(getStoreCalls) :
          getStoreCalls[i] = getStoreCalls[j] => i = j
    /\ \A i \in 1..Len(getStoreCalls) :
          \E k \in 1..Len(products) :
             /\ products[k].attributes.store_id = getStoreCalls[i]
             /\ \A h \in 1..(k - 1) :
                   products[h].attributes.store_id # getStoreCalls[i]
    /\ \A i \in 1..Len(items) :
          items[i].data.price.currency = stores[products[i].attributes.store_id]

C23_Witness ==
    /\ pc = "confirm"
    /\ Len(products) = 3
    /\ Len(items) = 3
    /\ products[1].attributes.store_id = "store_1"
    /\ products[2].attributes.store_id = "store_2"
    /\ products[3].attributes.store_id = "store_1"
    /\ getStoreCalls = <<"store_1", "store_2">>
    /\ items[3].data.price.currency = "EUR"
    /\ items[2].data.price.currency = "USD"

\* The items of a page as the loop takes them
ItemsOf(page) == IF page.isArray THEN page.data ELSE <<>>

\* The cursor a reader holds after the page of cursor c, as a set: the after
\* parameter of the page's next link, or nothing when there is none; with
\* stopAtEmpty the reader also stops after a page that is an empty array.
Follow(c, stopAtEmpty) ==
    IF server[c].next.kind # "cursor" THEN {}
    ELSE IF stopAtEmpty /\ server[c].isArray /\ Len(server[c].data) = 0 THEN {}
    ELSE {server[c].next.after}

\* The cursor held after n pages, from the cursor in cs
RECURSIVE CursorAfter(_, _, _)
CursorAfter(cs, n, stopAtEmpty) ==
    IF cs = {} \/ n = 0 THEN cs
    ELSE IF n = 1 THEN UNION {Follow(c, stopAtEmpty) : c \in cs}
    ELSE CursorAfter(CursorAfter(cs, n \div 2, stopAtEmpty), n - n \div 2, stopAtEmpty)

\* The pages a reader meets from the cursor in cs, at most n of them
RECURSIVE PagesFrom(_, _, _)
PagesFrom(cs, n, stopAtEmpty) ==
    IF cs = {} \/ n = 0 THEN <<>>
    ELSE IF n = 1 THEN <<server[CHOOSE c \in cs : TRUE]>>
    ELSE PagesFrom(cs, n \div 2, stopAtEmpty)
         \o PagesFrom(CursorAfter(cs, n \div 2, stopAtEmpty), n - n \div 2, stopAtEmpty)

RECURSIVE ConcatItems(_)
ConcatItems(pages) ==
    IF Len(pages) = 0 THEN <<>>
    ELSE IF Len(pages) = 1 THEN ItemsOf(pages[1])
    ELSE ConcatItems(SubSeq(pages, 1, Len(pages) \div 2))
         \o ConcatItems(SubSeq(pages, Len(pages) \div 2 + 1, Len(pages)))

NoRequestFailed == \A i \in 1..Len(asks) : asks[i].ok

\* C24 as stated: fetchAllPages makes at most 100 requests, and when no request
\* fails and the source has at most 100 pages it returns the items of all the
\* pages, in page order.
C24_AllPagesConcatenated ==
    /\ Len(asks) <= 100
    /\ (pc = "returned" /\ NoRequestFailed
        /\ Len(PagesFrom({NoCursor}, 101, FALSE)) <= 100)
       => allItems = ConcatItems(PagesFrom({NoCursor}, 101, FALSE))

\* C24 amended: fetchAllPages makes at most 100 requests, and when no request
\* fails it returns the items of the pages in page order up to the first page
\* that has no next cursor or is an empty array, provided these are at most 100.
C24_PagesUntilEmptyConcatenated ==
    /\ Len(asks) <= 100
    /\ (pc = "returned" /\ NoRequestFailed
        /\ Len(PagesFrom({NoCursor}, 101, TRUE)) <= 100)
       => allItems = ConcatItems(PagesFrom({NoCursor}, 101, TRUE))

C24_Witness ==
    /\ pc = "returned"
    /\ NoRequestFailed
    /\ Len(asks) = 100
    /\ DOMAIN server = 0..99
    /\ Len(allItems) = 100
    /\ allItems[100] = 99

\* C25: fetchAllPages never raises; a request that fails is its last one, and it
\* returns the items of the pages answered before it, none when the first request
\* failed.
C25_FailureReturnsAccumulated ==
    /\ pc \in {"fetching", "returned"}
    /\ \A i \in 1..Len(asks) :
          ~asks[i].ok
          => /\ i = Len(asks)
             /\ pc = "returned"
             /\ allItems = ConcatItems([j \in 1..(i - 1) |-> server[asks[j].after]])
             /\ (i = 1 => allItems = <<>>)

C25_Witness ==
    /\ pc = "returned"
    /\ Len(asks) = 3
    /\ ~asks[3].ok
    /\ allItems = <<0, 1>>

\* The selected migrations in the order the handler runs them
SelectedInOrder ==
    SelectSeq(<<"products", "discounts", "customers">>,
              LAMBDA t : t \in migrateTypes)

AsksOf(p) == { i \in 1..Len(asks) : asks[i].page = p }

\* asks[i] ends the paging: a third 429 of its page, another answer that is not
\* ok, or a page of fewer than 50 items
EndsPaging(i) ==
    \/ asks[i].status = 429 /\ Cardinality({ j \in AsksOf(asks[i].page) : j <= i }) = 3
    \/ asks[i].status \notin {200, 429}
    \/ asks[i].status = 200 /\ asks[i].count < 50

\* The items of the pages answered 200, in request order
RECURSIVE FetchedItems(_)
FetchedItems(rs) ==
    IF rs = <<>> THEN <<>>
    ELSE (IF Head(rs).status = 200 THEN PageItems(Head(rs).page, Head(rs).count)
          ELSE <<>>) \o FetchedItems(Tail(rs))

\* C27: the Polar fetch asks for each page at most 3 times and again only after
\* a 429; a third 429, another answer that is not ok, an empty page or a page of
\* fewer than 50 items is the last request, and then the items of the pages
\* fetched before are all kept and passed on to be migrated.
C27_PolarPaging ==
    /\ \A p \in 1..MaxPages : Cardinality(AsksOf(p)) <= 3
    /\ \A i \in 2..Len(asks) :
          IF asks[i - 1].status = 429
          THEN asks[i].page = asks[i - 1].page
          ELSE asks[i].page = asks[i - 1].page + 1
    /\ \A i \in 1..Len(asks) :
          EndsPaging(i) => /\ i = Len(asks)
                           /\ pc # "fetching"
    /\ allItems = FetchedItems(asks)
    /\ pc = "mapping" => allItems # <<>>
    /\ pc = "done" => allItems = <<>>
    /\ (pc = "fetching" /\ asks # <<>>) => ~EndsPaging(Len(asks))

C27_Witness ==
    /\ pc = "mapping"
    /\ Len(asks) = 4
    /\ asks[1].status = 200 /\ asks[1].count = 50
    /\ asks[2].status = 429
    /\ asks[3].status = 429
    /\ asks[4].status = 429
    /\ Len(allItems) = 50

\* C28: in the LemonSqueezy coupon flow, once the creation loop is over
\* successCount + failureCount is the number of transformed discounts, and
\* completedCoupons is true, and 'coupons' is in the final message, exactly when
\* the user answered yes and no create call failed.
C28_CouponsCompleted ==
    (pc \in {"done", "reported"})
    => /\ answer = "yes" => successCount + failureCount = Len(requests)
       /\ completedCoupons <=> (answer = "yes" /\ failureCount = 0)
       /\ pc = "reported"
          => ((\E i \in 1..Len(completedMigrations) : completedMigrations[i] = "coupons")
              <=> (answer = "yes" /\ failureCount = 0))

C28_Witness ==
    /\ pc = "reported"
    /\ answer = "yes"
    /\ Len(requests) = 2
    /\ successCount = 1
    /\ failureCount = 1
    /\ completedProducts
    /\ completedMigrations = <<"products">>

\* C29: in the LemonSqueezy coupon flow transformMultipleToDodoPayments is called
\* on percentage discounts only, and it returns: the only error of the branch is
\* the one of the import, and neither the error for a missing name or code nor
\* the one for a fixed amount is thrown, whatever the account holds.
C29_BatchTransformReturns ==
    /\ thrown \in {NoError, ImportError}
    /\ pc = "exit1" => (thrown = ImportError /\ filtered = <<>>)
    /\ \A i \in 1..Len(filtered) : filtered[i].isPercent = TRUE
    /\ (pc \in {"confirm", "creating", "done", "reported"})
       => /\ thrown = NoError
          /\ Len(requests) = Len(SelectSeq(filtered, ValidateCanonicalDiscount))

C29_Witness ==
    /\ pc = "confirm"
    /\ thrown = NoError
    /\ \E i \in 1..Len(discounts) :
          /\ discounts[i].status = "published"
          /\ ~discounts[i].isPercent
    /\ \E j \in 1..Len(filtered) : filtered[j].name = ""
    /\ Len(requests) = 1
    /\ Len(filtered) = 2

\* The items of the lists answered, in request order
RECURSIVE AnsweredItems(_)
AnsweredItems(rs) ==
    IF rs = <<>> THEN <<>>
    ELSE (IF Head(rs).outcome = "answered"
          THEN PageItems(Head(rs).page, Head(rs).count) ELSE <<>>)
         \o AnsweredItems(Tail(rs))

\* The page size the sources name for each loop
ClaimedPageSize ==
    CASE flow.provider = "gumroad" -> 10
      [] flow.provider = "2checkout" -> 100
      [] flow.provider = "paddle-classic" -> 50

\* C30: a page-number loop asks for the pages 1, 2, 3, ... once each, goes on
\* after every full page and ends at the first page shorter than the page size,
\* holding the items of all the pages in order; a page of an unexpected shape
\* makes the migration return with nothing created.
C30_PageNumberLoop ==
    /\ \A i \in 1..Len(asks) : asks[i].page = i
    /\ \A i \in 1..(Len(asks) - 1) :
          asks[i].outcome = "answered" /\ asks[i].count >= ClaimedPageSize
    /\ allItems = AnsweredItems(asks)
    /\ (pc = "fetching" /\ asks # <<>>)
       => (asks[Len(asks)].outcome = "answered"
           /\ asks[Len(asks)].count >= ClaimedPageSize)
    /\ (pc \in {"mapping", "done"})
       => (asks[Len(asks)].outcome = "answered"
           /\ asks[Len(asks)].count < ClaimedPageSize)
    /\ (asks # <<>> /\ asks[Len(asks)].outcome = "unexpected")
       => (pc = "returned" /\ created = <<>> /\ items = <<>>)
    /\ pc = "returned" => asks[Len(asks)].outcome = "unexpected"

C30_Witness ==
    /\ flow = GumroadCustomersFlow
    /\ pc = "mapping"
    /\ Len(asks) = 3
    /\ asks[1].count = 10
    /\ asks[2].count = 11
    /\ asks[3].count = 9
    /\ Len(allItems) = 30
    /\ allItems[30] = [page |-> 3, index |-> 9]

====
